---- MODULE Spec2Model ----
(***************************************************************************)
(* A model of the gateway and HTTP core of guilded.py:                     *)
(*   src/guilded/gateway.py  GuildedWebSocket, WebSocketEventParsers       *)
(*   src/guilded/http.py     HTTPClient (object cache, request executor)   *)
(*                                                                         *)
(* Python values are tagged records ([t |-> "str", s |-> ...], ...), so    *)
(* that values of different Python types can be compared.  A text is a     *)
(* sequence of characters; a run of letters is kept as one element (the    *)
(* code never looks inside a run of letters), every other character        *)
(* (digit, quote, bracket, brace, colon, comma, blank) is one element.     *)
(***************************************************************************)
EXTENDS Integers, Sequences, FiniteSets, TLC

VARIABLES
    \* HTTPClient object cache (http.py)
    _messages,       \* the message cache, an insertion-ordered dict id -> Message
    _max_messages,   \* its capacity, set by the constructor
    inserted,        \* history: the messages given to add_to_message_cache
    _teams,          \* the team cache, a dict team id -> Team
    _team_members,   \* the member cache, a dict team id -> dict id -> Member
    \* frame codec
    event,           \* the custom event [name, payload] to send
    wire,            \* the text written to the socket
    decoded,         \* what the inbound decoder made of that text
    \* HTTPClient.request (http.py)
    hpc,             \* where the call is: idle, awaiting, sleeping, done
    req,             \* the route and options of the call
    submitted,       \* history: the calls of session.request
    responses,       \* history: the responses received
    sleeps,          \* history: the arguments of asyncio.sleep
    frames,          \* responses held by the perform() frames awaiting a retry
    outcome,         \* what request returned or raised
    \* GuildedWebSocket (gateway.py)
    sid,             \* ws.sid
    upgrades,        \* ws.upgrades
    _heartbeater,    \* ws._heartbeater: 0 (None) or an index into threads
    threads,         \* every Heartbeater created on this connection
    inbox,           \* the message socket.receive() returned, not yet handled
    entry,           \* history: the frame last handled and the cache it found
    calls,           \* the calls made while handling the last frame, in order
    result,          \* how received_event ended for the last frame
    \* Heartbeater.run of the Heartbeater the connection started (gateway.py)
    hb_pc,           \* where the thread is: unstarted, waiting, sending, exited
    hb_total,        \* total: seconds the current send has been waited for
    hb_warnings,     \* history: the totals log.warning was called with
    hb_last,         \* history: duration of the last completed heartbeat send
    now,             \* the clock, in seconds
    hb_sent,         \* history: per heartbeat send issued, was the socket open
    \* the connection as a whole
    _close_code,     \* ws._close_code: None until close() is called
    fetching         \* the handler of the frame in inbox awaits an HTTP request

cacheVars == <<_messages, _max_messages, inserted>>

memberVars == <<_teams, _team_members>>

codecVars == <<event, wire, decoded>>

httpVars == <<hpc, req, submitted, responses, sleeps, frames, outcome>>

wsVars == <<sid, upgrades, _heartbeater, threads, inbox, entry, calls, result>>

hbVars == <<hb_pc, hb_total, hb_warnings, hb_last, now>>

connVars == <<hb_sent, _close_code, fetching>>

vars == <<cacheVars, memberVars, codecVars, httpVars, wsVars, hbVars, connVars>>

\* ------------------------------------------------------------------------
\* Python values
\* ------------------------------------------------------------------------

None == [t |-> "none"]

JStr(s) == [t |-> "str", s |-> s]

JNum(n) == [t |-> "num", n |-> n]

JArr(a) == [t |-> "arr", a |-> a]

JObj(kv) == [t |-> "obj", kv |-> kv]

\* A raised exception, as the result of an operator that models a call.
Raise(kind) == [t |-> "raise", exc |-> kind, cause |-> ""]

IsRaise(v) == v.t = "raise"

\* Python truthiness (bool(v)) of the values above.
Truthy(v) ==
    CASE v.t = "none" -> FALSE
      [] v.t = "str" -> v.s # <<>>
      [] v.t = "num" -> v.n # 0
      [] v.t = "arr" -> v.a # <<>>
      [] v.t = "obj" -> v.kv # <<>>
      [] OTHER -> TRUE

\* ------------------------------------------------------------------------
\* Python dict: insertion-ordered, a sequence of <<key, value>> pairs
\* ------------------------------------------------------------------------

DictKeys(d) == [i \in 1..Len(d) |-> d[i][1]]

DictHas(d, k) == \E i \in 1..Len(d) : d[i][1] = k

\* d.get(k): the value under k, None when absent
DictGet(d, k) ==
    IF DictHas(d, k)
    THEN d[CHOOSE i \in 1..Len(d) : d[i][1] = k][2]
    ELSE None

\* d[k] = v: an existing key keeps its position, a new key goes last
DictSet(d, k, v) ==
    IF DictHas(d, k)
    THEN [i \in 1..Len(d) |-> IF d[i][1] = k THEN <<k, v>> ELSE d[i]]
    ELSE Append(d, <<k, v>>)

\* del d[k]
DictDel(d, k) == SelectSeq(d, LAMBDA kv : kv[1] # k)

\* ------------------------------------------------------------------------
\* Characters and json.dumps / json.loads
\* ------------------------------------------------------------------------

DigitSeq == <<"0", "1", "2", "3", "4", "5", "6", "7", "8", "9">>

Digits == {DigitSeq[i] : i \in 1..Len(DigitSeq)}

\* str.isdigit() of one character
CharIsDigit(c) == c \in Digits

DigitVal(c) == (CHOOSE i \in 1..Len(DigitSeq) : DigitSeq[i] = c) - 1

RECURSIVE Decimal(_)
Decimal(n) ==
    IF n < Len(DigitSeq)
    THEN <<DigitSeq[n + 1]>>
    ELSE Decimal(n \div Len(DigitSeq)) \o <<DigitSeq[(n % Len(DigitSeq)) + 1]>>

Quote == "\""

RECURSIVE dumps(_), dumpsItems(_), dumpsMembers(_)
\* json.dumps with Python's default separators ", " and ": "
dumps(v) ==
    CASE v.t = "str" -> <<Quote>> \o v.s \o <<Quote>>
      [] v.t = "num" -> Decimal(v.n)
      [] v.t = "none" -> <<"null">>
      [] v.t = "arr" -> <<"[">> \o dumpsItems(v.a) \o <<"]">>
      [] v.t = "obj" -> <<"{">> \o dumpsMembers(v.kv) \o <<"}">>

dumpsItems(a) ==
    IF a = <<>> THEN <<>>
    ELSE IF Len(a) = 1 THEN dumps(a[1])
    ELSE dumps(a[1]) \o <<",", " ">> \o dumpsItems(Tail(a))

dumpsMembers(kv) ==
    IF kv = <<>> THEN <<>>
    ELSE LET m == <<Quote>> \o kv[1][1] \o <<Quote, ":", " ">> \o dumps(kv[1][2])
         IN IF Len(kv) = 1 THEN m
            ELSE m \o <<",", " ">> \o dumpsMembers(Tail(kv))

\* A parse result: the value and the index of the first character after it.
POk(v, i) == [ok |-> TRUE, v |-> v, i |-> i]

PFail == [ok |-> FALSE, v |-> None, i |-> 0]

RECURSIVE SkipWs(_, _)
SkipWs(s, i) == IF i <= Len(s) /\ s[i] = " " THEN SkipWs(s, i + 1) ELSE i

RECURSIVE ParseChars(_, _, _)
\* the characters of a string literal up to its closing quote
ParseChars(s, i, acc) ==
    IF i > Len(s) THEN PFail
    ELSE IF s[i] = Quote THEN POk(acc, i + 1)
    ELSE ParseChars(s, i + 1, Append(acc, s[i]))

RECURSIVE ParseDigits(_, _, _)
ParseDigits(s, i, n) ==
    IF i <= Len(s) /\ CharIsDigit(s[i])
    THEN ParseDigits(s, i + 1, n * Len(DigitSeq) + DigitVal(s[i]))
    ELSE POk(JNum(n), i)

RECURSIVE ParseValue(_, _), ParseItems(_, _, _), ParseMembers(_, _, _)
ParseValue(s, i0) ==
    LET i == SkipWs(s, i0) IN
    IF i > Len(s) THEN PFail
    ELSE CASE s[i] = "{" ->
                IF SkipWs(s, i + 1) <= Len(s) /\ s[SkipWs(s, i + 1)] = "}"
                THEN POk(JObj(<<>>), SkipWs(s, i + 1) + 1)
                ELSE ParseMembers(s, i + 1, <<>>)
           [] s[i] = "[" ->
                IF SkipWs(s, i + 1) <= Len(s) /\ s[SkipWs(s, i + 1)] = "]"
                THEN POk(JArr(<<>>), SkipWs(s, i + 1) + 1)
                ELSE ParseItems(s, i + 1, <<>>)
           [] s[i] = Quote ->
                LET r == ParseChars(s, i + 1, <<>>)
                IN IF r.ok THEN POk(JStr(r.v), r.i) ELSE PFail
           [] s[i] = "null" -> POk(None, i + 1)
           [] s[i] = "0" -> POk(JNum(0), i + 1)
           [] CharIsDigit(s[i]) -> ParseDigits(s, i, 0)
           [] OTHER -> PFail

\* array items after "[" (or after a comma); acc holds the items so far
ParseItems(s, i, acc) ==
    LET r == ParseValue(s, i) IN
    IF ~r.ok THEN PFail
    ELSE LET j == SkipWs(s, r.i) IN
         IF j > Len(s) THEN PFail
         ELSE IF s[j] = "," THEN ParseItems(s, j + 1, Append(acc, r.v))
         ELSE IF s[j] = "]" THEN POk(JArr(Append(acc, r.v)), j + 1)
         ELSE PFail

\* object members after "{" (or after a comma); a repeated key keeps the
\* last value, as a Python dict does
ParseMembers(s, i0, acc) ==
    LET i == SkipWs(s, i0) IN
    IF i > Len(s) \/ s[i] # Quote THEN PFail
    ELSE LET k == ParseChars(s, i + 1, <<>>) IN
         IF ~k.ok THEN PFail
         ELSE LET c == SkipWs(s, k.i) IN
              IF c > Len(s) \/ s[c] # ":" THEN PFail
              ELSE LET r == ParseValue(s, c + 1) IN
                   IF ~r.ok THEN PFail
                   ELSE LET j == SkipWs(s, r.i) IN
                        IF j > Len(s) THEN PFail
                        ELSE IF s[j] = ","
                             THEN ParseMembers(s, j + 1, DictSet(acc, k.v, r.v))
                        ELSE IF s[j] = "}"
                             THEN POk(JObj(DictSet(acc, k.v, r.v)), j + 1)
                        ELSE PFail

\* json.loads: one value, then nothing but blanks
loads(s) ==
    LET r == ParseValue(s, 1) IN
    IF r.ok /\ SkipWs(s, r.i) > Len(s) THEN r.v ELSE Raise("JSONDecodeError")

\* ------------------------------------------------------------------------
\* Frame codec (gateway.py)
\* ------------------------------------------------------------------------

\* str.replace(c, "", 1): s without its first occurrence of c
RemoveFirst(s, c) ==
    IF \E i \in 1..Len(s) : s[i] = c
    THEN LET k == CHOOSE i \in 1..Len(s) :
                      s[i] = c /\ \A j \in 1..(i - 1) : s[j] # c
         IN SubSeq(s, 1, k - 1) \o SubSeq(s, k + 1, Len(s))
    ELSE s

RECURSIVE StripLoop_nobreak(_, _, _)
\* the same loop without its break: every digit of the text is removed
StripLoop_nobreak(orig, i, payload) ==
    IF i > Len(orig) THEN payload
    ELSE IF CharIsDigit(orig[i])
         THEN StripLoop_nobreak(orig, i + 1, RemoveFirst(payload, orig[i]))
         ELSE StripLoop_nobreak(orig, i + 1, payload)

\* the loop leaving after the first character
StripLoop_first(orig, i, payload) ==
    IF i > Len(orig) THEN payload
    ELSE IF CharIsDigit(orig[i]) THEN RemoveFirst(payload, orig[i])
    ELSE payload

RECURSIVE StripLoop(_, _, _)
\* the for loop of _full_event_parse: it walks the characters of the string
\* it was given, and rebinds payload to a copy with one character removed
StripLoop(orig, i, payload) ==
    IF i > Len(orig) THEN payload
    ELSE IF CharIsDigit(orig[i])
         THEN StripLoop(orig, i + 1, RemoveFirst(payload, orig[i]))
         ELSE payload

TypeKey == <<"type">>

\* GuildedWebSocket._pretty_event
_pretty_event(payload0) ==
    IF payload0.t = "arr" /\ Len(payload0.a) < 2 THEN Raise("IndexError")
    ELSE LET payload == IF payload0.t = "arr" THEN payload0.a[2] ELSE payload0 IN
         IF payload.t # "obj" THEN Raise("AttributeError")
         ELSE IF ~Truthy(DictGet(payload.kv, TypeKey)) THEN payload
         ELSE JObj(<< <<TypeKey, DictGet(payload.kv, TypeKey)>>,
                      << <<"data">>, JObj(DictDel(payload.kv, TypeKey))>> >>)

\* GuildedWebSocket._full_event_parse
_full_event_parse(payload) ==
    LET data == loads(StripLoop(payload, 1, payload)) IN
    IF IsRaise(data) THEN data ELSE _pretty_event(data)

\* The outbound custom-event frame of HTTPClient.trigger_typing:
\* f"42{json.dumps(payload)}" with payload = [eventName, object]
encode(eventName, payload) ==
    <<"4", "2">> \o dumps(JArr(<<JStr(eventName), payload>>))

trigger_typing(channel_id) ==
    encode(<<"ChatChannelTyping">>,
           JObj(<< <<(<<"channelId">>), JStr(channel_id)>> >>))

\* ------------------------------------------------------------------------
\* Message objects and the message cache (http.py)
\* ------------------------------------------------------------------------

Key(name) == <<name>>

Obj1(k, v) == JObj(<< <<Key(k), v>> >>)

\* data[k] of a parsed object, None when the key is absent (dict.get)
Get(data, k) == IF data.t = "obj" THEN DictGet(data.kv, Key(k)) ELSE None

\* Message(state=, channel=, data=, author=, team=): the message keeps the
\* raw payload, reads its id from data["message"]["id"] and its webhook id
\* from data["webhookId"]
Message(channel, data, author, team) ==
    [t |-> "Message",
     id |-> Get(Get(data, "message"), "id"),
     _raw |-> data,
     webhook_id |-> Get(data, "webhookId"),
     channel |-> channel,
     author |-> author,
     team |-> team]

\* HTTPClient._get_message
_get_message(messages, id) == DictGet(messages, id)

RECURSIVE EvictLoop(_, _)
\* while len(self._messages) > self._max_messages: del first key
EvictLoop(messages, max) ==
    IF Len(messages) > max /\ messages # <<>>
    THEN EvictLoop(DictDel(messages, DictKeys(messages)[1]), max)
    ELSE messages

\* the same loop deleting the newest key instead of the oldest
add_to_message_cache_newest(messages, max, message) ==
    LET d == DictSet(messages, message.id, message) IN
    IF Len(d) > max THEN SubSeq(d, 1, max) ELSE d

\* add_to_message_cache moving a re-inserted id to the newest position
add_to_message_cache_refresh(messages, max, message) ==
    EvictLoop(Append(DictDel(messages, message.id), <<message.id, message>>), max)

\* HTTPClient.add_to_message_cache
add_to_message_cache(messages, max, message) ==
    EvictLoop(DictSet(messages, message.id, message), max)

\* ------------------------------------------------------------------------
\* Bounds and input sets
\* ------------------------------------------------------------------------

\* largest capacity the constructor is given (max_messages >= 1)
MaxMessages == 2

\* longest sequence of add_to_message_cache calls explored
MaxInserts == 4

CacheIds == {JStr(<<"ma">>), JStr(<<"mb">>), JStr(<<"mc">>), JStr(<<"md">>)}

EventNames == {<<"foo">>, <<"ChatChannelTyping">>}

\* payload objects: an optional "type" member (first or last), an optional
\* number and an optional string; digits occur inside the JSON text
PayloadTypes == {<<>>} \cup
    {<< <<Key("type"), v>> >> :
        v \in {JStr(<<>>), JStr(<<"foo">>), JStr(<<"bar">>), JNum(0), JNum(7)}}

PayloadNums == {<<>>} \cup
    {<< <<Key("a"), JNum(n)>> >> : n \in {0, 1, 42}}

PayloadStrs == {<<>>, << <<Key("channelId"), JStr(<<"c", "4", "2">>)>> >>}

Payloads ==
    {JObj(ty \o nu \o st) : ty \in PayloadTypes, nu \in PayloadNums, st \in PayloadStrs}
    \cup
    {JObj(nu \o st \o ty) : ty \in PayloadTypes, nu \in PayloadNums, st \in PayloadStrs}

NoText == <<>>

\* ------------------------------------------------------------------------
\* Initial states of the components
\* ------------------------------------------------------------------------

\* HTTPClient.__init__: an empty cache of the given capacity
CacheInit ==
    /\ _messages = <<>>
    /\ _max_messages \in 1..MaxMessages
    /\ inserted = <<>>

CodecIdle ==
    /\ event = None
    /\ wire = NoText
    /\ decoded = None

\* HTTPClient.__init__: no team and no member is cached
MembersIdle ==
    /\ _teams = <<>>
    /\ _team_members = <<>>

\* float("inf")
Inf == [t |-> "inf"]

\* no Heartbeater thread runs
HbIdle ==
    /\ hb_pc = "unstarted"
    /\ hb_total = 0
    /\ hb_warnings = <<>>
    /\ hb_last = None
    /\ now = 0

\* GuildedWebSocket.__init__: the socket is open, nothing is awaited
ConnIdle ==
    /\ hb_sent = <<>>
    /\ _close_code = None
    /\ fetching = FALSE

\* no request has been made
HttpIdle ==
    /\ hpc = "idle"
    /\ req = None
    /\ submitted = <<>>
    /\ responses = <<>>
    /\ sleeps = <<>>
    /\ frames = <<>>
    /\ outcome = None

\* GuildedWebSocket.__init__
WsInit ==
    /\ sid = None
    /\ upgrades = JArr(<<>>)
    /\ _heartbeater = 0
    /\ threads = <<>>
    /\ inbox = None
    /\ entry = None
    /\ calls = <<>>
    /\ result = None

\* ------------------------------------------------------------------------
\* The message cache alone
\* ------------------------------------------------------------------------

\* the payload of a message of some id with some content
Contents == {JStr(<<"x">>), JStr(<<"y">>)}

MessageData(id, content) ==
    JObj(<< <<Key("message"), Obj1("id", id)>>, <<Key("content"), content>> >>)

\* a call of add_to_message_cache with a message of some id
AddToMessageCache ==
    /\ Len(inserted) < MaxInserts
    /\ \E id \in CacheIds :
       \E content \in Contents :
         LET message == Message(None, MessageData(id, content), None, None) IN
         /\ _messages' = add_to_message_cache(_messages, _max_messages, message)
         /\ inserted' = Append(inserted, message)
    /\ UNCHANGED <<_max_messages, memberVars, hbVars, codecVars, httpVars, wsVars, connVars>>

CacheNext == AddToMessageCache

InitCache == CacheInit /\ MembersIdle /\ HbIdle /\ CodecIdle /\ HttpIdle /\ WsInit /\ ConnIdle

SpecCache == InitCache /\ [][CacheNext]_vars

\* ------------------------------------------------------------------------
\* The frame codec alone
\* ------------------------------------------------------------------------

\* the custom event to send: any name with any payload object
CodecInit ==
    /\ event \in {JArr(<<JStr(e), p>>) : e \in EventNames, p \in Payloads}
    /\ wire = NoText
    /\ decoded = None

\* ws.send(f"42{json.dumps(payload)}")
SendCustomEvent ==
    /\ wire = NoText
    /\ wire' = encode(event.a[1].s, event.a[2])
    /\ UNCHANGED <<event, decoded, cacheVars, memberVars, hbVars, httpVars, wsVars, connVars>>

\* the inbound decoder applied to the text on the wire
DecodeFrame ==
    /\ wire # NoText
    /\ decoded = None
    /\ decoded' = _full_event_parse(wire)
    /\ UNCHANGED <<event, wire, cacheVars, memberVars, hbVars, httpVars, wsVars, connVars>>

CodecNext == SendCustomEvent \/ DecodeFrame

CacheIdle ==
    /\ _messages = <<>>
    /\ _max_messages = 1
    /\ inserted = <<>>

InitCodec == CodecInit /\ CacheIdle /\ MembersIdle /\ HbIdle /\ HttpIdle /\ WsInit /\ ConnIdle

SpecCodec == InitCodec /\ [][CodecNext]_vars

\* ------------------------------------------------------------------------
\* Properties of the message cache (SpecCache)
\* ------------------------------------------------------------------------

IdsOf(msgs) == [i \in 1..Len(msgs) |-> msgs[i].id]

Distinct(seq) == \A i, j \in 1..Len(seq) : seq[i] = seq[j] => i = j

Min(a, b) == IF a < b THEN a ELSE b

LastN(seq, n) == SubSeq(seq, Len(seq) - n + 1, Len(seq))

\* C1: after any sequence of add_to_message_cache calls the cache holds at
\* most _max_messages entries; after inserts of distinct ids it holds the
\* most recently inserted ones in insertion order, and after N+1 distinct
\* ids exactly N entries, the first-inserted id gone and every later one
\* present.
C1_BoundedOldestEvicted ==
    /\ Len(_messages) <= _max_messages
    /\ Distinct(IdsOf(inserted)) =>
         DictKeys(_messages) =
             LastN(IdsOf(inserted), Min(_max_messages, Len(inserted)))
    /\ (Distinct(IdsOf(inserted)) /\ Len(inserted) = _max_messages + 1) =>
         /\ Len(_messages) = _max_messages
         /\ ~DictHas(_messages, inserted[1].id)
         /\ \A i \in 2..Len(inserted) :
              _get_message(_messages, inserted[i].id) = inserted[i]

\* N+1 distinct ids have been inserted and the first one has been evicted
C1_Witness ==
    /\ Distinct(IdsOf(inserted))
    /\ Len(inserted) = _max_messages + 1
    /\ ~DictHas(_messages, inserted[1].id)

\* ------------------------------------------------------------------------
\* Properties of the frame codec (SpecCodec)
\* ------------------------------------------------------------------------

EventObj(type, data) == JObj(<< <<Key("type"), type>>, <<Key("data"), data>> >>)

\* C2 as stated: decoding "42" + JSON([e, p]) yields {type: e, data: p}
C2_RoundTripByName ==
    decoded # None => decoded = EventObj(event.a[1], event.a[2])

\* C2, amended: the decoder takes the event type from the payload object,
\* not from the first array element.  Decoding "42" + JSON([e, p]) yields
\* {type: p.type, data: p without its type member} when p has a truthy
\* "type" member, and p itself otherwise.
C2_RoundTripByPayloadType ==
    decoded # None =>
        LET p == event.a[2] IN
        IF Truthy(Get(p, "type"))
        THEN decoded = EventObj(Get(p, "type"), JObj(DictDel(p.kv, Key("type"))))
        ELSE decoded = p

\* a frame has been decoded into an event whose type is not the sent name
C2_Witness ==
    /\ decoded # None
    /\ Truthy(Get(decoded, "type"))
    /\ Get(decoded, "type") # event.a[1]
    /\ Get(decoded, "data") # None

\* ------------------------------------------------------------------------
\* HTTPClient.request (http.py)
\* ------------------------------------------------------------------------

BASE == <<"https://www.guilded.gg/api">>

LoginPath == <<"/login">>

\* Route(method, path): url = BASE + path
Route(method, path) ==
    [t |-> "Route", method |-> method, path |-> path, url |-> BASE \o path]

\* what session.request is called with
Submission(route, kwargs) ==
    [method |-> route.method, url |-> route.url, kwargs |-> kwargs]

Response(status, headers, body) ==
    [t |-> "response", status |-> status, headers |-> headers, body |-> body]

Returned(v) == [t |-> "return", v |-> v]

\* the fixed wait when a 429 response has no Retry-After header
FallbackSeconds == 5

\* guilded.errors.error_mapping: the fixed table status -> error kind
error_mapping ==
    << <<400, "BadRequest">>, <<401, "Unauthorized">>, <<403, "Forbidden">>,
       <<404, "NotFound">>, <<429, "TooManyRequests">>,
       <<500, "GuildedServerError">>, <<502, "GuildedServerError">>,
       <<503, "GuildedServerError">> >>

\* error_mapping.get(response.status, HTTPException)
error_mapping_get(status) ==
    IF DictHas(error_mapping, status)
    THEN DictGet(error_mapping, status)
    ELSE "HTTPException"

\* asyncio.sleep(delay) starts with `if delay <= 0`, which raises TypeError
\* when delay is a str; header values are str
asyncio_sleep(delay) ==
    IF delay.t = "num" THEN None ELSE Raise("TypeError")

\* return data if route.path != "/login" else response
PerformReturn(data, response, path) ==
    Returned(IF path # LoginPath THEN data ELSE response)

\* perform() with the error branch taken for status > 400 only
PerformResponse_gt400(response, path) ==
    IF response.status = 204 THEN Returned(None)
    ELSE IF response.status # 200 /\ response.status = 429
         THEN LET retry_after == DictGet(response.headers, Key("Retry-After")) IN
              [t |-> "sleep",
               v |-> IF Truthy(retry_after) THEN retry_after
                     ELSE JNum(FallbackSeconds)]
    ELSE IF response.status # 200 /\ response.status > 400
         THEN Raise(error_mapping_get(response.status))
    ELSE PerformReturn(response.body, response, path)

\* perform() from the response of session.request to its return, its raise
\* or its asyncio.sleep
PerformResponse(response, path) ==
    IF response.status = 204 THEN Returned(None)
    ELSE IF response.status # 200 /\ response.status = 429
         THEN LET retry_after == DictGet(response.headers, Key("Retry-After")) IN
              [t |-> "sleep",
               v |-> IF Truthy(retry_after) THEN retry_after
                     ELSE JNum(FallbackSeconds)]
    ELSE IF response.status # 200 /\ response.status >= 400
         THEN Raise(error_mapping_get(response.status))
    ELSE PerformReturn(response.body, response, path)

RECURSIVE Unwind(_, _, _)
\* the perform() frames suspended in `data = await perform()` resume,
\* innermost first, each with data bound to what the inner call returned
Unwind(held, inner, path) ==
    IF held = <<>> THEN inner
    ELSE Unwind(SubSeq(held, 1, Len(held) - 1),
                PerformReturn(inner.v, held[Len(held)], path),
                path)

\* most calls of session.request explored for one call of request
MaxAttempts == 3

Routes == {Route("GET", <<"/me">>), Route("POST", LoginPath)}

Options == {<<>>, << <<Key("json"), Obj1("email", JStr(<<"e">>))>> >>}

Statuses == {200, 201, 204, 400, 404, 418, 429, 500}

Bodies == {Obj1("id", JNum(1)), Obj1("id", JNum(2))}

RetryAfterHeader == << <<Key("Retry-After"), JStr(<<"2">>)>> >>

\* the responses the server may give: 204 has no body; a 429 may carry a
\* Retry-After header
ServerResponses ==
    {Response(204, <<>>, None)}
    \cup {Response(st, <<>>, b) : st \in Statuses \ {204}, b \in Bodies}
    \cup {Response(429, RetryAfterHeader, b) : b \in Bodies}

\* request(route, **kwargs) up to the first `await self.session.request(...)`
Request ==
    /\ hpc = "idle"
    /\ \E route \in Routes, kwargs \in Options :
         /\ req' = [route |-> route, kwargs |-> kwargs]
         /\ submitted' = <<Submission(route, kwargs)>>
    /\ hpc' = "awaiting"
    /\ UNCHANGED <<responses, sleeps, frames, outcome>>
    /\ UNCHANGED <<cacheVars, memberVars, hbVars, codecVars, wsVars, connVars>>

\* session.request answers; perform() runs on to its return, raise or sleep
Respond ==
    /\ hpc = "awaiting"
    /\ \E response \in ServerResponses :
         LET step == PerformResponse(response, req.route.path) IN
         /\ responses' = Append(responses, response)
         /\ IF step.t = "sleep"
            THEN /\ sleeps' = Append(sleeps, step.v)
                 /\ IF IsRaise(asyncio_sleep(step.v))
                    THEN /\ hpc' = "done"
                         /\ outcome' = asyncio_sleep(step.v)
                         /\ frames' = <<>>
                    ELSE /\ hpc' = "sleeping"
                         /\ outcome' = outcome
                         /\ frames' = Append(frames, response)
            ELSE /\ sleeps' = sleeps
                 /\ hpc' = "done"
                 /\ frames' = <<>>
                 /\ outcome' = IF IsRaise(step) THEN step
                               ELSE Unwind(frames, step, req.route.path)
    /\ UNCHANGED <<req, submitted>>
    /\ UNCHANGED <<cacheVars, memberVars, hbVars, codecVars, wsVars, connVars>>

\* asyncio.sleep is over: `data = await perform()` submits the call again
Resubmit ==
    /\ hpc = "sleeping"
    /\ Len(submitted) < MaxAttempts
    /\ submitted' = Append(submitted, Submission(req.route, req.kwargs))
    /\ hpc' = "awaiting"
    /\ UNCHANGED <<req, responses, sleeps, frames, outcome>>
    /\ UNCHANGED <<cacheVars, memberVars, hbVars, codecVars, wsVars, connVars>>

HttpNext == Request \/ Respond \/ Resubmit

InitHttp == HttpIdle /\ CacheIdle /\ MembersIdle /\ HbIdle /\ CodecIdle /\ WsInit /\ ConnIdle

SpecHttp == InitHttp /\ [][HttpNext]_vars

\* ------------------------------------------------------------------------
\* Properties of HTTPClient.request (SpecHttp)
\* ------------------------------------------------------------------------

LastResponse == responses[Len(responses)]

\* the wait the claim asks for after a 429 response
ExpectedWait(response) ==
    IF DictHas(response.headers, Key("Retry-After"))
    THEN DictGet(response.headers, Key("Retry-After"))
    ELSE JNum(FallbackSeconds)

\* C4 as stated: a 429 response never makes request raise; after every 429
\* the call sleeps for the Retry-After value (5 without the header) and
\* submits the same method, URL and options again.
C4_RateLimitRetried ==
    \A i \in 1..Len(responses) :
        responses[i].status = 429 =>
            /\ ~(i = Len(responses) /\ hpc = "done" /\ IsRaise(outcome))
            /\ i <= Len(sleeps) /\ sleeps[i] = ExpectedWait(responses[i])
            /\ (i = Len(responses) => hpc \in {"sleeping", "awaiting"})
            /\ (i < Len(submitted) => submitted[i + 1] = submitted[1])

\* C5: a response with status >= 400 other than 429 makes request raise the
\* error kind mapped to the status (HTTPException when unmapped) at once:
\* no call of session.request and no sleep follows it.
C5_ErrorStatusRaised ==
    (responses # <<>> /\ LastResponse.status >= 400 /\ LastResponse.status # 429) =>
        /\ hpc = "done"
        /\ outcome = Raise(IF DictHas(error_mapping, LastResponse.status)
                            THEN DictGet(error_mapping, LastResponse.status)
                            ELSE "HTTPException")
        /\ Len(submitted) = Len(responses)
        /\ Len(sleeps) = Len(responses) - 1
        /\ \A i \in 1..(Len(responses) - 1) : responses[i].status = 429

\* a 400 answered the call after one rate-limited attempt
C5_Witness ==
    /\ Len(responses) = 2
    /\ LastResponse.status = 400
    /\ outcome = Raise("BadRequest")

\* what a returned value holds: the body, when it is a response object
Content(v) == IF v.t = "response" THEN v.body ELSE v

\* C6 as stated: request returns no content when the final response is 204
\* and the parsed body of the final response when it is another 2xx, also
\* after attempts answered with 429; the returned value never comes from a
\* 429 response.
C6_ReturnsFinalContent ==
    (hpc = "done" /\ outcome.t = "return") =>
        /\ (LastResponse.status = 204 => outcome.v = None)
        /\ (LastResponse.status \in (200..299) \ {204}
              => Content(outcome.v) = LastResponse.body)
        /\ ~(outcome.v.t = "response" /\ outcome.v.status = 429)

\* ------------------------------------------------------------------------
\* GuildedWebSocket and WebSocketEventParsers (gateway.py)
\* ------------------------------------------------------------------------

HEARTBEAT_PAYLOAD == <<"2">>

MsPerSecond == 1000

\* pingInterval / 1000: true division, kept exact
TrueDiv(a, b) == [t |-> "float", int |-> a \div b, rem |-> a % b, den |-> b]

\* The state a frame handler reads and writes, as one record.
WsState ==
    [messages |-> _messages, max |-> _max_messages,
     teams |-> _teams, members |-> _team_members,
     sid |-> sid, upgrades |-> upgrades,
     heartbeater |-> _heartbeater, threads |-> threads,
     calls |-> <<>>, result |-> Returned(None)]

\* one call made by a handler, appended to the record of calls
Called(c, op, name, args) ==
    [c EXCEPT !.calls = Append(@, [op |-> op, name |-> name, args |-> args])]

\* client.dispatch(name, *args): the event goes to the listeners
dispatch(c, name, args) == Called(c, "dispatch", name, args)

\* client.get_message(id): the lookup in the message cache
get_message(c, id) == _get_message(c.messages, id)

\* self._state.add_to_message_cache(message)
CachePut(c, message) ==
    [Called(c, "cache", "add_to_message_cache", <<message>>)
        EXCEPT !.messages = add_to_message_cache(c.messages, c.max, message)]

\* client.cached_messages.remove(message): the message leaves the cache
cached_messages_remove(c, message) ==
    [Called(c, "cache", "remove", <<message>>)
        EXCEPT !.messages = DictDel(c.messages, message.id)]

Raising(c, kind) == [c EXCEPT !.result = Raise(kind)]

\* data[k] (dict subscript)
Item(data, k) ==
    IF data.t # "obj" THEN Raise("TypeError")
    ELSE IF ~DictHas(data.kv, Key(k)) THEN Raise("KeyError")
    ELSE DictGet(data.kv, Key(k))

\* data["message"]["id"]
MessageIdOf(data) ==
    IF IsRaise(Item(data, "message")) THEN Item(data, "message")
    ELSE Item(Item(data, "message"), "id")

\* data[k] = v on the payload dict
SetItem(data, k, v) == JObj(DictSet(data.kv, Key(k), v))

\* what the cache-or-fetch lookups give when they succeed
TeamObj(id) == [t |-> "Team", id |-> id]

ChannelObj(id) == [t |-> "Channel", id |-> id, team |-> TeamObj(JStr(<<"tm">>))]

UserObj(id) == [t |-> "User", id |-> id]

MemberObj(id, team) == [t |-> "Member", id |-> id, team |-> team]

\* data.get(k, data.get("message", {}).get(k))
GetOrFromMessage(data, k) ==
    IF DictHas(data.kv, Key(k)) THEN Get(data, k)
    ELSE IF DictHas(data.kv, Key("message")) THEN Get(Get(data, "message"), k)
    ELSE None

\* an awaited cache-or-fetch lookup (getch_channel, getch_member,
\* getch_user, getch_team): it gives the object or raises
Fetch(ok, value) == IF ok THEN value ELSE Raise("HTTPException")

\* the lookup is made and its outcome observed by the handler
TryFetch(c, name, id, got) == Called(c, "fetch", name, <<id, got>>)

\* try: x = await lookup  except: x = None
Caught(got) == IF IsRaise(got) THEN None ELSE got

\* ChatMessageCreated without the try/except around getch_channel
ChatMessageCreated_propagate(c, data, env) ==
    LET channelId == GetOrFromMessage(data, "channelId")
        createdBy == GetOrFromMessage(data, "createdBy")
        teamId == GetOrFromMessage(data, "teamId")
        chOut == Fetch(env.channel, ChannelObj(channelId))
        c1 == IF Truthy(channelId)
              THEN TryFetch(c, "getch_channel", channelId, chOut) ELSE c
        channel == IF Truthy(channelId) THEN Caught(chOut) ELSE None
        auOut == IF Truthy(channel)
                 THEN Fetch(env.author, MemberObj(createdBy, channel.team))
                 ELSE Fetch(env.author, UserObj(createdBy))
        c2 == IF Truthy(createdBy)
              THEN TryFetch(c1, IF Truthy(channel) THEN "getch_member" ELSE "getch_user",
                            createdBy, auOut)
              ELSE c1
        author == IF Truthy(createdBy) THEN Caught(auOut) ELSE None
        tmOut == Fetch(env.team, TeamObj(teamId))
        c3 == IF Truthy(teamId) /\ ~Truthy(channel)
              THEN TryFetch(c2, "getch_team", teamId, tmOut) ELSE c2
        team == IF Truthy(teamId)
                THEN IF Truthy(channel) THEN channel.team ELSE Caught(tmOut)
                ELSE None
        message == Message(channel, data, author, team)
    IN IF Truthy(channelId) /\ IsRaise(chOut) THEN Raising(c1, chOut.exc)
       ELSE dispatch(CachePut(c3, message), "message", <<message>>)

\* WebSocketEventParsers.ChatMessageCreated; env tells which of the awaited
\* cache-or-fetch lookups succeed
ChatMessageCreated(c, data, env) ==
    LET channelId == GetOrFromMessage(data, "channelId")
        createdBy == GetOrFromMessage(data, "createdBy")
        teamId == GetOrFromMessage(data, "teamId")
        chOut == Fetch(env.channel, ChannelObj(channelId))
        c1 == IF Truthy(channelId)
              THEN TryFetch(c, "getch_channel", channelId, chOut) ELSE c
        channel == IF Truthy(channelId) THEN Caught(chOut) ELSE None
        auOut == IF Truthy(channel)
                 THEN Fetch(env.author, MemberObj(createdBy, channel.team))
                 ELSE Fetch(env.author, UserObj(createdBy))
        c2 == IF Truthy(createdBy)
              THEN TryFetch(c1, IF Truthy(channel) THEN "getch_member" ELSE "getch_user",
                            createdBy, auOut)
              ELSE c1
        author == IF Truthy(createdBy) THEN Caught(auOut) ELSE None
        tmOut == Fetch(env.team, TeamObj(teamId))
        c3 == IF Truthy(teamId) /\ ~Truthy(channel)
              THEN TryFetch(c2, "getch_team", teamId, tmOut) ELSE c2
        team == IF Truthy(teamId)
                THEN IF Truthy(channel) THEN channel.team ELSE Caught(tmOut)
                ELSE None
        message == Message(channel, data, author, team)
    IN dispatch(CachePut(c3, message), "message", <<message>>)

\* WebSocketEventParsers.ChatChannelTyping
ChatChannelTyping(c, data) ==
    IF IsRaise(Item(data, "channelId")) THEN Raising(c, "KeyError")
    ELSE IF IsRaise(Item(data, "userId")) THEN Raising(c, "KeyError")
    ELSE dispatch(c, "typing",
                  <<Item(data, "channelId"), Item(data, "userId"),
                    [t |-> "datetime"]>>)

\* ChatMessageDeleted firing the typed event whether or not the message
\* was cached
ChatMessageDeleted_always_typed(c, data0) ==
    IF IsRaise(MessageIdOf(data0)) THEN Raising(c, MessageIdOf(data0).exc)
    ELSE LET message == get_message(c, MessageIdOf(data0))
             data == SetItem(data0, "cached_message", message)
             c1 == dispatch(c, "raw_message_delete", <<data>>)
         IN IF message # None
            THEN dispatch(cached_messages_remove(c1, message),
                          "message_delete", <<message>>)
            ELSE dispatch(c1, "message_delete", <<message>>)

\* WebSocketEventParsers.ChatMessageDeleted
ChatMessageDeleted(c, data0) ==
    IF IsRaise(MessageIdOf(data0)) THEN Raising(c, MessageIdOf(data0).exc)
    ELSE LET message == get_message(c, MessageIdOf(data0))
             data == SetItem(data0, "cached_message", message)
             c1 == dispatch(c, "raw_message_delete", <<data>>)
         IN IF message # None
            THEN dispatch(cached_messages_remove(c1, message),
                          "message_delete", <<message>>)
            ELSE c1

\* ChatPinnedMessageCreated choosing the typed event by the payload's
\* channelType instead of the cached message's team
ChatPinnedMessageCreated_by_channel(c, data) ==
    LET c1 == IF Get(data, "channelType") = JStr(<<"Team">>)
              THEN dispatch(c, "raw_team_message_pinned", <<data>>)
              ELSE dispatch(c, "raw_dm_message_pinned", <<data>>)
    IN IF IsRaise(MessageIdOf(data)) THEN Raising(c1, MessageIdOf(data).exc)
       ELSE LET message == get_message(c1, MessageIdOf(data)) IN
            IF message = None THEN c1
            ELSE IF Get(data, "channelType") = JStr(<<"Team">>)
                 THEN dispatch(c1, "team_message_pinned", <<message>>)
                 ELSE dispatch(c1, "dm_message_pinned", <<message>>)

\* WebSocketEventParsers.ChatPinnedMessageCreated
ChatPinnedMessageCreated(c, data) ==
    LET c1 == IF Get(data, "channelType") = JStr(<<"Team">>)
              THEN dispatch(c, "raw_team_message_pinned", <<data>>)
              ELSE dispatch(c, "raw_dm_message_pinned", <<data>>)
    IN IF IsRaise(MessageIdOf(data)) THEN Raising(c1, MessageIdOf(data).exc)
       ELSE LET message == get_message(c1, MessageIdOf(data)) IN
            IF message = None THEN c1
            ELSE IF message.team # None
                 THEN dispatch(c1, "team_message_pinned", <<message>>)
                 ELSE dispatch(c1, "dm_message_pinned", <<message>>)

\* WebSocketEventParsers.ChatPinnedMessageDeleted
ChatPinnedMessageDeleted(c, data) ==
    LET c1 == IF Get(data, "channelType") = JStr(<<"Team">>)
              THEN dispatch(c, "raw_team_message_unpinned", <<data>>)
              ELSE dispatch(c, "raw_dm_message_unpinned", <<data>>)
    IN IF IsRaise(MessageIdOf(data)) THEN Raising(c1, MessageIdOf(data).exc)
       ELSE LET message == get_message(c1, MessageIdOf(data)) IN
            IF message = None THEN c1
            ELSE IF message.team # None
                 THEN dispatch(c1, "team_message_unpinned", <<message>>)
                 ELSE dispatch(c1, "dm_message_unpinned", <<message>>)

\* ChatMessageUpdated building the new message from the payload alone when
\* no prior version is cached
ChatMessageUpdated_uncached_too(c, data0) ==
    LET c1 == dispatch(c, "raw_message_edit", <<data0>>) IN
    IF IsRaise(MessageIdOf(data0)) THEN Raising(c1, MessageIdOf(data0).exc)
    ELSE LET before == get_message(c1, MessageIdOf(data0)) IN
         IF before = None
         THEN dispatch(CachePut(c1, Message(None, data0, None, None)),
                       "message_edit", <<before, Message(None, data0, None, None)>>)
         ELSE LET data == SetItem(SetItem(data0, "webhookId", before.webhook_id),
                                  "createdAt", Get(before._raw, "createdAt"))
                  after == Message(before.channel, data, before.author, None)
              IN dispatch(CachePut(c1, after), "message_edit", <<before, after>>)

\* ChatMessageUpdated without carrying the creation timestamp forward
ChatMessageUpdated_no_carry(c, data0) ==
    LET c1 == dispatch(c, "raw_message_edit", <<data0>>) IN
    IF IsRaise(MessageIdOf(data0)) THEN Raising(c1, MessageIdOf(data0).exc)
    ELSE LET before == get_message(c1, MessageIdOf(data0)) IN
         IF before = None THEN c1
         ELSE LET data == SetItem(data0, "webhookId", before.webhook_id)
                  after == Message(before.channel, data, before.author, None)
              IN dispatch(CachePut(c1, after), "message_edit", <<before, after>>)

\* WebSocketEventParsers.ChatMessageUpdated
ChatMessageUpdated(c, data0) ==
    LET c1 == dispatch(c, "raw_message_edit", <<data0>>) IN
    IF IsRaise(MessageIdOf(data0)) THEN Raising(c1, MessageIdOf(data0).exc)
    ELSE LET before == get_message(c1, MessageIdOf(data0)) IN
         IF before = None THEN c1
         ELSE LET data == SetItem(SetItem(data0, "webhookId", before.webhook_id),
                                  "createdAt", Get(before._raw, "createdAt"))
                  after == Message(before.channel, data, before.author, None)
              IN dispatch(CachePut(c1, after), "message_edit", <<before, after>>)

\* HTTPClient._get_team
_get_team(teams, id) == DictGet(teams, id)

\* HTTPClient._get_team_member: self._team_members.get(team_id, {}).get(id)
_get_team_member(members, team_id, id) ==
    IF DictHas(members, team_id) THEN DictGet(DictGet(members, team_id), id)
    ELSE None

\* HTTPClient.add_to_team_cache
add_to_team_cache(teams, team) == DictSet(teams, team.id, team)

\* HTTPClient.add_to_member_cache
add_to_member_cache(members, member) ==
    DictSet(members, member.team.id,
            DictSet(IF DictHas(members, member.team.id)
                    THEN DictGet(members, member.team.id) ELSE <<>>,
                    member.id, member))

\* a Member of a team as the member cache holds it
TeamMember(team, id, xp, roles) ==
    [t |-> "Member", id |-> id, team |-> team, xp |-> xp, roles |-> roles,
     nickname |-> None]

\* the member object handed to listeners; what they read through it is the
\* object's state when they look
MemberRef(member) == [t |-> "MemberRef", team |-> member.team.id, id |-> member.id]

\* client.get_team(id): the lookup in the team cache
get_team(c, id) == _get_team(c.teams, id)

\* team.get_member(id): the lookup in the member cache of that team
Team_get_member(c, team, id) == _get_team_member(c.members, team.id, id)

\* self._state.add_to_member_cache(member)
MemberPut(c, member) ==
    [Called(c, "cache", "add_to_member_cache", <<member>>)
        EXCEPT !.members = add_to_member_cache(c.members, member)]

\* data["userIds"][0]
FirstUserId(data) ==
    LET ids == Item(data, "userIds") IN
    IF IsRaise(ids) THEN ids
    ELSE IF ids.t # "arr" THEN Raise("TypeError")
    ELSE IF ids.a = <<>> THEN Raise("IndexError")
    ELSE ids.a[1]

\* TeamXpSet announcing the update although the member is not cached
TeamXpSet_uncached_member(c, data) ==
    IF ~Truthy(Get(data, "amount")) THEN c
    ELSE IF IsRaise(Item(data, "teamId")) THEN Raising(c, "KeyError")
    ELSE LET team == get_team(c, Item(data, "teamId")) IN
         IF team = None THEN c
         ELSE IF IsRaise(FirstUserId(data)) THEN Raising(c, FirstUserId(data).exc)
         ELSE LET before == Team_get_member(c, team, FirstUserId(data)) IN
              IF before = None
              THEN LET after == TeamMember(team, FirstUserId(data),
                                           Item(data, "amount"), JArr(<<>>))
                   IN dispatch(MemberPut(c, after), "member_update",
                               <<MemberRef(after), MemberRef(after)>>)
              ELSE LET after == [Team_get_member(c, team, before.id)
                                    EXCEPT !.xp = Item(data, "amount")]
                   IN dispatch(MemberPut(c, after), "member_update",
                               <<MemberRef(before), MemberRef(after)>>)

\* WebSocketEventParsers.TeamXpSet
TeamXpSet(c, data) ==
    IF ~Truthy(Get(data, "amount")) THEN c
    ELSE IF IsRaise(Item(data, "teamId")) THEN Raising(c, "KeyError")
    ELSE LET team == get_team(c, Item(data, "teamId")) IN
         IF team = None THEN c
         ELSE IF IsRaise(FirstUserId(data)) THEN Raising(c, FirstUserId(data).exc)
         ELSE LET before == Team_get_member(c, team, FirstUserId(data)) IN
              IF before = None THEN c
              ELSE LET after == [Team_get_member(c, team, before.id)
                                    EXCEPT !.xp = Item(data, "amount")]
                   IN dispatch(MemberPut(c, after), "member_update",
                               <<MemberRef(before), MemberRef(after)>>)

RECURSIVE DispatchPairs(_, _, _)
\* for b, a in befores_afters: self.client.dispatch("member_update", b, a)
DispatchPairs(c, pairs, i) ==
    IF i > Len(pairs) THEN c
    ELSE DispatchPairs(dispatch(c, "member_update", pairs[i]), pairs, i + 1)

RECURSIVE RolesLoop_eager(_, _, _, _)
\* the loop over data["memberRoleIds"] dispatching each update as it is made
RolesLoop_eager(c, team, entries, i) ==
    IF i > Len(entries) THEN [c |-> c, pairs |-> <<>>]
    ELSE IF IsRaise(Item(entries[i], "userId"))
         THEN [c |-> Raising(c, Item(entries[i], "userId").exc), pairs |-> <<>>]
    ELSE LET before == Team_get_member(c, team, Item(entries[i], "userId")) IN
         IF ~Truthy(before) THEN RolesLoop_eager(c, team, entries, i + 1)
         ELSE IF IsRaise(Item(entries[i], "roleIds"))
              THEN [c |-> Raising(c, "KeyError"), pairs |-> <<>>]
         ELSE LET after == [Team_get_member(c, team, before.id)
                               EXCEPT !.roles = Item(entries[i], "roleIds")]
              IN RolesLoop_eager(
                     dispatch(MemberPut(c, after), "member_update",
                              <<MemberRef(before), MemberRef(after)>>),
                     team, entries, i + 1)

RECURSIVE RolesLoop(_, _, _, _, _)
\* the loop over data["memberRoleIds"]: the state it leaves and the
\* befores_afters list it builds
RolesLoop(c, team, entries, i, pairs) ==
    IF i > Len(entries) THEN [c |-> c, pairs |-> pairs]
    ELSE IF IsRaise(Item(entries[i], "userId"))
         THEN [c |-> Raising(c, Item(entries[i], "userId").exc), pairs |-> pairs]
    ELSE LET before == Team_get_member(c, team, Item(entries[i], "userId")) IN
         IF ~Truthy(before) THEN RolesLoop(c, team, entries, i + 1, pairs)
         ELSE IF IsRaise(Item(entries[i], "roleIds"))
              THEN [c |-> Raising(c, "KeyError"), pairs |-> pairs]
         ELSE LET after == [Team_get_member(c, team, before.id)
                               EXCEPT !.roles = Item(entries[i], "roleIds")]
              IN RolesLoop(MemberPut(c, after), team, entries, i + 1,
                           Append(pairs, <<MemberRef(before), MemberRef(after)>>))

\* teamRolesUpdates with each event dispatched inside the loop
teamRolesUpdates_eager(c, data) ==
    IF IsRaise(Item(data, "teamId")) THEN Raising(c, "KeyError")
    ELSE LET team == get_team(c, Item(data, "teamId")) IN
         IF team = None THEN c
         ELSE IF IsRaise(Item(data, "memberRoleIds")) THEN Raising(c, "KeyError")
         ELSE IF Item(data, "memberRoleIds").t # "arr" THEN Raising(c, "TypeError")
         ELSE RolesLoop_eager(c, team, Item(data, "memberRoleIds").a, 1).c

\* WebSocketEventParsers.teamRolesUpdates
teamRolesUpdates(c, data) ==
    IF IsRaise(Item(data, "teamId")) THEN Raising(c, "KeyError")
    ELSE LET team == get_team(c, Item(data, "teamId")) IN
         IF team = None THEN c
         ELSE IF IsRaise(Item(data, "memberRoleIds")) THEN Raising(c, "KeyError")
         ELSE IF Item(data, "memberRoleIds").t # "arr" THEN Raising(c, "TypeError")
         ELSE LET loop == RolesLoop(c, team, Item(data, "memberRoleIds").a, 1, <<>>) IN
              IF IsRaise(loop.c.result) THEN loop.c
              ELSE DispatchPairs(loop.c, loop.pairs, 1)

\* Member(state=self.client.http, data=data): the raw member of an update
RawMember(data) == [t |-> "RawMember", data |-> data]

\* setattr(member, key, val) for the attributes the model gives a member
SetAttr(member, key, val) ==
    CASE key = Key("nickname") -> [member EXCEPT !.nickname = val]
      [] key = Key("xp") -> [member EXCEPT !.xp = val]
      [] key = Key("roles") -> [member EXCEPT !.roles = val]
      [] OTHER -> member

RECURSIVE InfoLoop(_, _, _, _, _)
\* for key, val in data["userInfo"].items(): the state the loop leaves and
\* the binding of after, None while nothing has bound it
InfoLoop(c, team, data, i, after) ==
    LET items == Item(data, "userInfo").kv IN
    IF i > Len(items) THEN [c |-> c, after |-> after]
    ELSE LET found == Team_get_member(c, team, Item(data, "userId")) IN
         IF found = None
         THEN [c |-> Raising(c, "AttributeError"), after |-> after]
         ELSE LET changed == SetAttr(found, items[i][1], items[i][2]) IN
              InfoLoop(MemberPut(c, changed), team, data, i + 1, changed)

\* WebSocketEventParsers.TeamMemberUpdated; after is bound only inside the
\* loop, so reading it after a loop over no items raises UnboundLocalError
TeamMemberUpdated(c, data) ==
    LET c1 == dispatch(c, "raw_member_update", <<RawMember(data)>>) IN
    IF IsRaise(Item(data, "teamId")) THEN Raising(c1, "KeyError")
    ELSE LET team == get_team(c1, Item(data, "teamId")) IN
         IF team = None THEN c1
         ELSE IF IsRaise(Item(data, "userId")) THEN Raising(c1, "KeyError")
         ELSE LET before == Team_get_member(c1, team, Item(data, "userId")) IN
              IF before = None THEN c1
              ELSE IF IsRaise(Item(data, "userInfo")) THEN Raising(c1, "KeyError")
              ELSE IF Item(data, "userInfo").t # "obj"
                   THEN Raising(c1, "AttributeError")
              ELSE LET loop == InfoLoop(c1, team, data, 1, None) IN
                   IF IsRaise(loop.c.result) THEN loop.c
                   ELSE IF loop.after = None
                        THEN Raising(loop.c, "UnboundLocalError")
                   ELSE dispatch(loop.c, "member_update",
                                 <<MemberRef(before), MemberRef(loop.after)>>)

HandlerNames ==
    {"ChatMessageCreated", "ChatChannelTyping", "ChatMessageDeleted",
     "ChatPinnedMessageCreated", "ChatPinnedMessageDeleted", "ChatMessageUpdated",
     "TeamXpSet", "TeamMemberUpdated", "teamRolesUpdates"}

\* attributes of the parsers object that are not event handlers
OtherAttributes == {"get", "client", "_state"}

\* the handler coroutine WebSocketEventParsers.get returns, run to its end
RunHandler(c, name, data, env) ==
    CASE name = "ChatMessageCreated" -> ChatMessageCreated(c, data, env)
      [] name = "ChatChannelTyping" -> ChatChannelTyping(c, data)
      [] name = "ChatMessageDeleted" -> ChatMessageDeleted(c, data)
      [] name = "ChatPinnedMessageCreated" -> ChatPinnedMessageCreated(c, data)
      [] name = "ChatPinnedMessageDeleted" -> ChatPinnedMessageDeleted(c, data)
      [] name = "ChatMessageUpdated" -> ChatMessageUpdated(c, data)
      [] name = "TeamXpSet" -> TeamXpSet(c, data)
      [] name = "TeamMemberUpdated" -> TeamMemberUpdated(c, data)
      [] name = "teamRolesUpdates" -> teamRolesUpdates(c, data)

\* Heartbeater.__init__
Heartbeater(interval) ==
    [interval |-> interval, started |-> FALSE, stop_ev |-> FALSE,
     latency |-> Inf]

\* the hello branch starting the Heartbeater before the payload is sent
Hello_start_first(c, data, env) ==
    LET c1 == [c EXCEPT !.sid = Item(data, "sid")] IN
    IF IsRaise(Item(data, "upgrades")) THEN Raising(c1, "KeyError")
    ELSE LET c2 == [c1 EXCEPT !.upgrades = Item(data, "upgrades")] IN
         IF IsRaise(Item(data, "pingInterval")) THEN Raising(c2, "KeyError")
         ELSE IF Item(data, "pingInterval").t # "num" THEN Raising(c2, "TypeError")
         ELSE LET c3 == [c2 EXCEPT
                           !.threads = Append(@, [Heartbeater(
                               TrueDiv(Item(data, "pingInterval").n, MsPerSecond))
                                                     EXCEPT !.started = TRUE]),
                           !.heartbeater = Len(c2.threads) + 1]
              IN IF ~env.sendOk THEN Raising(c3, "ConnectionResetError")
                 ELSE Called(c3, "send", "send", <<JStr(HEARTBEAT_PAYLOAD)>>)

\* the hello branch of received_event; env.sendOk tells whether ws.send
\* succeeds
Hello(c, data, env) ==
    LET c1 == [c EXCEPT !.sid = Item(data, "sid")] IN
    IF IsRaise(Item(data, "upgrades")) THEN Raising(c1, "KeyError")
    ELSE LET c2 == [c1 EXCEPT !.upgrades = Item(data, "upgrades")] IN
         IF IsRaise(Item(data, "pingInterval")) THEN Raising(c2, "KeyError")
         ELSE IF Item(data, "pingInterval").t # "num" THEN Raising(c2, "TypeError")
         ELSE LET c3 == [c2 EXCEPT
                           !.threads = Append(@, Heartbeater(
                               TrueDiv(Item(data, "pingInterval").n, MsPerSecond))),
                           !.heartbeater = Len(c2.threads) + 1]
              IN IF ~env.sendOk THEN Raising(c3, "ConnectionResetError")
                 ELSE [Called(c3, "send", "send", <<JStr(HEARTBEAT_PAYLOAD)>>)
                          EXCEPT !.threads[c3.heartbeater].started = TRUE]

\* the exception kinds that are GuildedException or a subclass of it
GuildedKinds ==
    {"GuildedException", "HTTPException"} \cup
    {error_mapping[i][2] : i \in 1..Len(error_mapping)}

\* the try/except reporting the failure without raising it again
AwaitEvent_swallow(c) ==
    IF ~IsRaise(c.result) THEN c
    ELSE IF c.result.exc \in GuildedKinds
         THEN [dispatch(c, "error", <<c.result>>) EXCEPT !.result = Returned(None)]
         ELSE LET exc == [Raise("GuildedException") EXCEPT !.cause = c.result.exc]
              IN [dispatch(c, "error", <<exc>>) EXCEPT !.result = Returned(None)]

\* the try/except around `await event`
AwaitEvent(c) ==
    IF ~IsRaise(c.result) THEN c
    ELSE IF c.result.exc \in GuildedKinds
         THEN dispatch(c, "error", <<c.result>>)
         ELSE LET exc == [Raise("GuildedException") EXCEPT !.cause = c.result.exc]
              IN [dispatch(c, "error", <<exc>>) EXCEPT !.result = exc]

\* str.isdigit() of a whole text
IsDigitText(payload) ==
    payload # <<>> /\ \A i \in 1..Len(payload) : CharIsDigit(payload[i])

\* GuildedWebSocket.received_event
received_event(c, payload, env) ==
    IF IsDigitText(payload) THEN c
    ELSE LET c1 == dispatch(c, "socket_raw_receive", <<JStr(payload)>>)
             data == _full_event_parse(payload)
         IN IF IsRaise(data) THEN [c1 EXCEPT !.result = data]
            ELSE LET c2 == dispatch(c1, "socket_response", <<data>>) IN
                 IF Truthy(Get(data, "sid")) THEN Hello(c2, data, env)
                 ELSE IF IsRaise(Item(data, "type")) \/ IsRaise(Item(data, "data"))
                      THEN Raising(c2, "KeyError")
                 ELSE LET type == Item(data, "type") IN
                      IF type.t # "str" THEN Raising(c2, "TypeError")
                      ELSE IF Len(type.s) = 1 /\ type.s[1] \in OtherAttributes
                           THEN Raising(c2, "TypeError")
                      ELSE IF Len(type.s) = 1 /\ type.s[1] \in HandlerNames
                           THEN AwaitEvent(RunHandler(c2, type.s[1],
                                                      Item(data, "data"), env))
                      ELSE c2

\* the kinds of message that mean the socket is closed or closing
ClosureKinds == {"CLOSED", "CLOSING", "CLOSE"}

\* poll_event raising WebSocketClosure for a closed socket only
poll_event_closed_only(c, msg, env) ==
    IF msg.t = "TEXT" THEN received_event(c, msg.data, env)
    ELSE IF msg.t = "ERROR" THEN Raising(c, msg.data)
    ELSE IF msg.t = "CLOSED" THEN Raising(c, "WebSocketClosure")
    ELSE c

\* GuildedWebSocket.poll_event, from the message socket.receive() returned
poll_event(c, msg, env) ==
    IF msg.t = "TEXT" THEN received_event(c, msg.data, env)
    ELSE IF msg.t = "ERROR" THEN Raising(c, msg.data)
    ELSE IF msg.t \in ClosureKinds THEN Raising(c, "WebSocketClosure")
    ELSE c

\* ------------------------------------------------------------------------
\* The frames the server sends
\* ------------------------------------------------------------------------

Str(a) == JStr(<<a>>)

\* an event frame as the gateway sends it: 42["<type>", {"type": "<type>", ...}]
EventFrame(type, fields) ==
    <<"4", "2">> \o
    dumps(JArr(<<Str(type), JObj(<< <<Key("type"), Str(type)>> >> \o fields)>>))

\* the hello frame: 0{"sid": ..., "upgrades": [...], "pingInterval": ...}
HelloFrame(s, ups, ping) ==
    <<"0">> \o
    dumps(JObj(<< <<Key("sid"), Str(s)>>, <<Key("upgrades"), JArr(ups)>>,
                  <<Key("pingInterval"), JNum(ping)>> >>))

MessageField(id) == << <<Key("message"), Obj1("id", id)>> >>

Field(k, v) == << <<Key(k), Str(v)>> >>

GatewayIds == {Str("ma"), Str("mb")}

CreatedFrames ==
    {EventFrame("ChatMessageCreated",
                MessageField(id) \o Field("createdAt", "ta"))
        : id \in GatewayIds}
    \cup
    {EventFrame("ChatMessageCreated",
                MessageField(id) \o Field("channelId", "ch") \o Field("teamId", "tm")
                \o Field("createdBy", "ua")
                \o Field("createdAt", "tb") \o Field("webhookId", "wa"))
        : id \in GatewayIds}

UpdatedFrames ==
    {EventFrame("ChatMessageUpdated", MessageField(id)) : id \in GatewayIds}
    \cup
    {EventFrame("ChatMessageUpdated",
                Field("createdAt", "tz") \o MessageField(id) \o Field("webhookId", "wz"))
        : id \in GatewayIds}
    \cup {EventFrame("ChatMessageUpdated", <<>>)}

DeletedFrames ==
    {EventFrame("ChatMessageDeleted", MessageField(id)) : id \in GatewayIds}
    \cup {EventFrame("ChatMessageDeleted", <<>>)}

PinFrames ==
    {EventFrame(type, Field("channelType", ct) \o MessageField(id))
        : type \in {"ChatPinnedMessageCreated", "ChatPinnedMessageDeleted"},
          ct \in {"Team", "DM"}, id \in GatewayIds}
    \cup
    {EventFrame(type, MessageField(id))
        : type \in {"ChatPinnedMessageCreated", "ChatPinnedMessageDeleted"},
          id \in GatewayIds}
    \cup
    {EventFrame(type, <<>>)
        : type \in {"ChatPinnedMessageCreated", "ChatPinnedMessageDeleted"}}

ControlFrames == {<<"3">>, <<"4", "0">>}

OtherFrames ==
    {EventFrame("ChatChannelTyping", Field("channelId", "ch") \o Field("userId", "ua")),
     EventFrame("ChatChannelTyping", Field("channelId", "ch")),
     EventFrame("FutureEvent", Field("x", "y")),
     EventFrame("client", <<>>),
     <<"4", "2", "[">>,
     <<"0", "{", "}">>}

HelloFrames ==
    {HelloFrame("sa", <<Str("websocket")>>, 25000), HelloFrame("sb", <<>>, 10000)}

MessageFrames == CreatedFrames \cup UpdatedFrames \cup DeletedFrames \cup PinFrames

SessionFrames ==
    HelloFrames \cup ControlFrames \cup OtherFrames
    \cup {EventFrame("ChatMessageCreated",
                      MessageField(Str("ma")) \o Field("channelId", "ch")
                      \o Field("createdBy", "ua"))}

\* most hello frames the server sends on one connection
MaxHellos == 2

\* what the awaited calls of a handler do: whether ws.send succeeds and
\* which cache-or-fetch lookups find their entity
\* (a handler awaits either ws.send or lookups, never both)
Envs ==
    [sendOk : {TRUE}, channel : BOOLEAN, author : BOOLEAN, team : BOOLEAN]
    \cup [sendOk : {FALSE}, channel : {TRUE}, author : {TRUE}, team : {TRUE}]

\* ------------------------------------------------------------------------
\* The receive path
\* ------------------------------------------------------------------------

\* poll_event: socket.receive() returns a TEXT message
PollEvent(sent) ==
    /\ inbox = None
    /\ \E payload \in sent :
         /\ payload \in HelloFrames => Len(threads) < MaxHellos
         /\ inbox' = [t |-> "TEXT", data |-> payload]
    /\ entry' = None
    /\ calls' = <<>>
    /\ result' = None
    /\ UNCHANGED <<sid, upgrades, _heartbeater, threads>>
    /\ UNCHANGED <<cacheVars, memberVars, hbVars, codecVars, httpVars, connVars>>

\* poll_event, after socket.receive() has returned: a TEXT message goes to
\* received_event, any other kind ends the call at once
Receive(envs) ==
    /\ inbox # None
    /\ \E env \in envs :
       \E c \in {poll_event(WsState, inbox, env)} :
         /\ _messages' = c.messages
         /\ _teams' = c.teams
         /\ _team_members' = c.members
         /\ sid' = c.sid
         /\ upgrades' = c.upgrades
         /\ _heartbeater' = c.heartbeater
         /\ threads' = c.threads
         /\ calls' = c.calls
         /\ result' = c.result
    /\ entry' = [t |-> "entry", kind |-> inbox.t,
                 payload |-> inbox.data, messages |-> _messages,
                 teams |-> _teams, members |-> _team_members,
                 session |-> <<sid, upgrades, _heartbeater, threads>>]
    /\ inbox' = None
    /\ fetching' = FALSE
    /\ UNCHANGED <<_max_messages, inserted, codecVars, httpVars, hbVars>>
    /\ UNCHANGED <<hb_sent, _close_code>>

ReceivedEvent == Receive(Envs)

\* the messages socket.receive() returns that are not TEXT
Signals ==
    {[t |-> kind, data |-> None] : kind \in ClosureKinds \cup {"BINARY", "PING"}}
    \cup {[t |-> "ERROR", data |-> "ConnectionResetError"]}

\* poll_event: socket.receive() returns a message that is not TEXT
PollSignal ==
    /\ inbox = None
    /\ \E msg \in Signals : inbox' = msg
    /\ entry' = None
    /\ calls' = <<>>
    /\ result' = None
    /\ UNCHANGED <<sid, upgrades, _heartbeater, threads>>
    /\ UNCHANGED <<cacheVars, memberVars, hbVars, codecVars, httpVars, connVars>>

PollSessionFrame == PollEvent(SessionFrames)

PollMessageFrame == PollEvent(MessageFrames)

SessionNext == PollSessionFrame \/ PollSignal \/ ReceivedEvent

EventsNext == PollMessageFrame \/ ReceivedEvent

\* largest capacity of the message cache of a client on a connection
GatewayCapacity == 1

\* HTTPClient.__init__ and GuildedWebSocket.__init__
InitGateway ==
    /\ _messages = <<>>
    /\ _max_messages \in 1..GatewayCapacity
    /\ inserted = <<>>
    /\ MembersIdle /\ HbIdle /\ CodecIdle /\ HttpIdle /\ WsInit /\ ConnIdle

\* a connection on which the server sends hello, control and event frames
SpecSession == InitGateway /\ [][SessionNext]_vars

\* a connection on which the server sends message events
SpecEvents == InitGateway /\ [][EventsNext]_vars

\* ------------------------------------------------------------------------
\* The member events of a connection
\* ------------------------------------------------------------------------

\* a payload field with any JSON value
ValueField(k, v) == << <<Key(k), v>> >>

TeamIds == {Str("ta"), Str("tb")}

UserIds == {Str("ua"), Str("ub")}

\* the only team the client ever caches; the other stays uncached
CachedTeamId == Str("ta")

\* the amounts of experience the server reports
Amounts == {JNum(0), JNum(5)}

XpFrames ==
    {EventFrame("TeamXpSet",
                ValueField("teamId", tid) \o ValueField("userIds", JArr(<<uid>>))
                \o amount)
        : tid \in TeamIds, uid \in UserIds,
          amount \in {<<>>} \cup {ValueField("amount", a) : a \in Amounts}}

RoleLists == {JArr(<<JNum(1)>>), JArr(<<JNum(2)>>)}

RoleEntry(uid, roles) ==
    JObj(ValueField("userId", uid) \o ValueField("roleIds", roles))

\* a user no team has as a member
Stranger == Str("uc")

\* most entries of a memberRoleIds batch
MaxBatch == 2

RoleEntries ==
    {RoleEntry(Str("ua"), r) : r \in RoleLists}
    \cup {RoleEntry(Str("ub"), JArr(<<JNum(1)>>)),
          RoleEntry(Stranger, JArr(<<JNum(1)>>))}

Batches ==
    UNION {[1..n -> RoleEntries] : n \in 0..MaxBatch}

RolesFrames ==
    {EventFrame("teamRolesUpdates",
                ValueField("teamId", CachedTeamId)
                \o ValueField("memberRoleIds", JArr(b))) : b \in Batches}
    \cup
    {EventFrame("teamRolesUpdates",
                ValueField("teamId", Str("tb"))
                \o ValueField("memberRoleIds",
                              JArr(<<RoleEntry(Str("ua"), JArr(<<JNum(1)>>))>>)))}

MemberFrames == XpFrames \cup RolesFrames

\* the client caches the team (add_to_team_cache), as fetching it does
AddToTeamCache ==
    /\ inbox = None
    /\ ~DictHas(_teams, CachedTeamId)
    /\ _teams' = add_to_team_cache(_teams, TeamObj(CachedTeamId))
    /\ entry' = None /\ calls' = <<>> /\ result' = None
    /\ UNCHANGED <<_team_members, cacheVars, codecVars, httpVars, hbVars, connVars>>
    /\ UNCHANGED <<sid, upgrades, _heartbeater, threads, inbox>>

\* the client caches a member of a team (add_to_member_cache), as fetching
\* the member does
AddToMemberCache ==
    /\ inbox = None
    /\ \E tid \in {CachedTeamId}, uid \in UserIds :
         /\ _get_team_member(_team_members, tid, uid) = None
         /\ _team_members' =
              add_to_member_cache(_team_members,
                                  TeamMember(TeamObj(tid), uid, JNum(0), JArr(<<>>)))
    /\ entry' = None /\ calls' = <<>> /\ result' = None
    /\ UNCHANGED <<_teams, cacheVars, codecVars, httpVars, hbVars, connVars>>
    /\ UNCHANGED <<sid, upgrades, _heartbeater, threads, inbox>>

PollMemberFrame == PollEvent(MemberFrames)

\* the member handlers await nothing, so no awaited call can fail
NothingAwaited == {[sendOk |-> TRUE, channel |-> TRUE, author |-> TRUE, team |-> TRUE]}

ReceivedMemberEvent == Receive(NothingAwaited)

MembersNext ==
    AddToTeamCache \/ AddToMemberCache \/ PollMemberFrame \/ ReceivedMemberEvent

\* a connection on which the server sends member events
SpecMembers == InitGateway /\ [][MembersNext]_vars

\* ------------------------------------------------------------------------
\* The member profile events of a connection
\* ------------------------------------------------------------------------

\* the field batches of a profile update: none, one and two fields
UserInfos ==
    {JObj(<<>>),
     JObj(ValueField("nickname", Str("na"))),
     JObj(ValueField("nickname", Str("nb")) \o ValueField("xp", JNum(5)))}

ProfileFrames ==
    {EventFrame("TeamMemberUpdated",
                ValueField("teamId", tid) \o ValueField("userId", uid)
                \o ValueField("userInfo", info))
        : tid \in TeamIds, uid \in UserIds, info \in UserInfos}

PollProfileFrame == PollEvent(ProfileFrames)

ProfilesNext ==
    AddToTeamCache \/ AddToMemberCache \/ PollProfileFrame \/ ReceivedMemberEvent

\* a connection on which the server sends member profile updates
SpecProfiles == InitGateway /\ [][ProfilesNext]_vars

\* ------------------------------------------------------------------------
\* Frames with any digit prefix
\* ------------------------------------------------------------------------

\* the engine.io / socket.io packet type digits in front of the JSON text
DigitPrefixes ==
    {<<"0">>, <<"4">>, <<"4", "2">>, <<"4", "0">>, <<"4", "2", "4">>,
     <<"2", "2", "4">>}

\* JSON values whose text holds digits of their own
DigitBodies ==
    {JObj(ValueField("type", Str("FutureEvent")) \o ValueField("n", JNum(n)))
        : n \in {4, 24, 42}}
    \cup {JArr(<<Str("FutureEvent"),
                 JObj(ValueField("type", Str("FutureEvent")) \o ValueField("n", v))>>)
            : v \in {JNum(2), JNum(420), JStr(<<"4", "2">>), JArr(<<JNum(4), JNum(2)>>)}}
    \cup {JObj(ValueField("k", JStr(<<"0">>))), JObj(<<>>),
          JArr(<<JNum(42), JObj(ValueField("n", JNum(0)))>>),
          JStr(<<"4", "2">>)}

PrefixedFrames == {d \o dumps(v) : d \in DigitPrefixes, v \in DigitBodies}

DigitFrames == {<<"2">>, <<"3">>, <<"4", "0">>, <<"4", "2", "7">>}

PollPrefixedFrame == PollEvent(PrefixedFrames \cup DigitFrames)

PrefixNext == PollPrefixedFrame \/ ReceivedEvent

\* a connection on which the server sends frames of any packet type
SpecPrefix == InitGateway /\ [][PrefixNext]_vars

\* ------------------------------------------------------------------------
\* The Heartbeater thread of a connection
\* ------------------------------------------------------------------------

\* f.result(10): how long one wait for the send lasts
ResultTimeout == 10

\* the clock value the exploration stops at
MaxTime == 60

\* how long a heartbeat send that completes may take within one wait
SendDurations == 0..2

\* GuildedWebSocket.latency
latency ==
    IF _heartbeater = 0 THEN Inf ELSE threads[_heartbeater].latency

\* sys._current_frames()[self._main_thread_id]: nothing assigns
\* _main_thread_id to the Heartbeater, so reading it raises AttributeError
MainThreadFrame == Raise("AttributeError")

\* the Heartbeater thread the connection started
Started == _heartbeater # 0 /\ threads[_heartbeater].started

\* Heartbeater.stop
stop(ths, i) == [ths EXCEPT ![i].stop_ev = TRUE]

\* Thread.start(): run begins
HbStart ==
    /\ hb_pc = "unstarted"
    /\ Started
    /\ hb_pc' = "waiting"
    /\ UNCHANGED <<hb_total, hb_warnings, hb_last, now>>
    /\ UNCHANGED <<cacheVars, memberVars, codecVars, httpVars, wsVars, connVars>>

\* a heartbeat loop that goes round only when a frame has been received
HbTick_on_frame ==
    /\ hb_pc = "waiting"
    /\ inbox # None
    /\ ~threads[_heartbeater].stop_ev
    /\ now + threads[_heartbeater].interval.int <= MaxTime
    /\ now' = now + threads[_heartbeater].interval.int
    /\ hb_pc' = "sending"
    /\ hb_total' = 0
    /\ hb_sent' = Append(hb_sent, _close_code = None)
    /\ UNCHANGED <<hb_warnings, hb_last, _close_code, fetching>>
    /\ UNCHANGED <<cacheVars, memberVars, codecVars, httpVars, wsVars>>

\* self._stop_ev.wait(self.interval) times out: the loop body sends the
\* heartbeat payload and starts waiting for the send, total = 0
HbTick ==
    /\ hb_pc = "waiting"
    /\ ~threads[_heartbeater].stop_ev
    /\ now + threads[_heartbeater].interval.int <= MaxTime
    /\ now' = now + threads[_heartbeater].interval.int
    /\ hb_pc' = "sending"
    /\ hb_total' = 0
    /\ hb_sent' = Append(hb_sent, _close_code = None)
    /\ UNCHANGED <<hb_warnings, hb_last, _close_code, fetching>>
    /\ UNCHANGED <<cacheVars, memberVars, codecVars, httpVars, wsVars>>

\* self._stop_ev.wait(self.interval) returns True: run returns
HbExit ==
    /\ hb_pc = "waiting"
    /\ threads[_heartbeater].stop_ev
    /\ hb_pc' = "exited"
    /\ UNCHANGED <<hb_total, hb_warnings, hb_last, now>>
    /\ UNCHANGED <<cacheVars, memberVars, codecVars, httpVars, wsVars, connVars>>

\* f.result(10) returns: the send is complete; run assigns nothing, latency
\* included, and goes back to the wait. A send issued on a closed socket
\* does not complete: socket.send_str raises
HbSendDone ==
    /\ hb_pc = "sending"
    /\ hb_sent[Len(hb_sent)]
    /\ \E d \in SendDurations :
         /\ now + d <= MaxTime
         /\ now' = now + d
         /\ hb_last' = JNum(hb_total + d)
    /\ hb_pc' = "waiting"
    /\ UNCHANGED <<hb_total, hb_warnings>>
    /\ UNCHANGED <<cacheVars, memberVars, codecVars, httpVars, wsVars, connVars>>

\* a failed send that is passed over instead of stopping the thread
HbSendFails_pass ==
    /\ hb_pc = "sending"
    /\ threads' = threads
    /\ hb_pc' = "waiting"
    /\ UNCHANGED <<hb_total, hb_warnings, hb_last, now>>
    /\ UNCHANGED <<sid, upgrades, _heartbeater, inbox, entry, calls, result>>
    /\ UNCHANGED <<cacheVars, memberVars, codecVars, httpVars, connVars>>

\* f.result(10) raises what the send raised: except Exception: self.stop()
HbSendFails ==
    /\ hb_pc = "sending"
    /\ threads' = stop(threads, _heartbeater)
    /\ hb_pc' = "waiting"
    /\ UNCHANGED <<hb_total, hb_warnings, hb_last, now>>
    /\ UNCHANGED <<sid, upgrades, _heartbeater, inbox, entry, calls, result>>
    /\ UNCHANGED <<cacheVars, memberVars, codecVars, httpVars, connVars>>

\* f.result(10) raises TimeoutError: total += 10, then the lookup of the
\* main thread's frame; only KeyError is handled there, any other exception
\* reaches except Exception: self.stop() before log.warning
HbTimeout ==
    /\ hb_pc = "sending"
    /\ now + ResultTimeout <= MaxTime
    /\ now' = now + ResultTimeout
    /\ hb_total' = hb_total + ResultTimeout
    /\ IF IsRaise(MainThreadFrame) /\ MainThreadFrame.exc # "KeyError"
       THEN /\ threads' = stop(threads, _heartbeater)
            /\ hb_pc' = "waiting"
            /\ hb_warnings' = hb_warnings
       ELSE /\ threads' = threads
            /\ hb_pc' = "sending"
            /\ hb_warnings' = Append(hb_warnings, hb_total')
    /\ UNCHANGED hb_last
    /\ UNCHANGED <<sid, upgrades, _heartbeater, inbox, entry, calls, result>>
    /\ UNCHANGED <<cacheVars, memberVars, codecVars, httpVars, connVars>>

\* the hello frame arrives, once
PollHello == threads = <<>> /\ PollEvent(HelloFrames)

HeartbeatNext ==
    \/ PollHello \/ ReceivedEvent
    \/ HbStart \/ HbTick \/ HbExit \/ HbSendDone \/ HbSendFails \/ HbTimeout

\* a connection from its construction, with the Heartbeater its hello starts
SpecHeartbeat == InitGateway /\ [][HeartbeatNext]_vars

\* ------------------------------------------------------------------------
\* The Heartbeater beside a quiet or busy receive path, up to close
\* ------------------------------------------------------------------------

\* the close code close() is called with by default
DefaultCloseCode == 1000

\* GuildedWebSocket.close, once the Heartbeater exists
Close ==
    /\ _close_code = None
    /\ _heartbeater # 0
    /\ _close_code' = JNum(DefaultCloseCode)
    /\ UNCHANGED <<hb_sent, fetching>>
    /\ UNCHANGED <<cacheVars, memberVars, codecVars, httpVars, wsVars, hbVars>>

\* after the hello, poll_event receives a control frame on the open socket
PollControl ==
    /\ threads # <<>>
    /\ _close_code = None
    /\ PollEvent(ControlFrames)

KeepAliveNext == HeartbeatNext \/ PollControl \/ Close

\* the Heartbeater thread runs whenever it can: Thread.start() begins run,
\* Event.wait(interval) returns after the interval or once the event is set,
\* and f.result(10) returns or raises within ten seconds. Nothing is
\* assumed about when frames arrive or when close is called.
HeartbeaterRuns ==
    /\ WF_vars(HbStart)
    /\ WF_vars(HbTick)
    /\ WF_vars(HbExit)
    /\ WF_vars(HbSendDone \/ HbSendFails \/ HbTimeout)

SpecKeepAlive == InitGateway /\ [][KeepAliveNext]_vars /\ HeartbeaterRuns

\* ------------------------------------------------------------------------
\* A rate-limited request beside the receive path and the Heartbeater
\* ------------------------------------------------------------------------

\* a message-create frame whose channel the handler has to resolve
NeedsChannel ==
    EventFrame("ChatMessageCreated",
               MessageField(Str("ma")) \o Field("channelId", "ch"))

BackoffFrames == {NeedsChannel, <<"3">>}

\* the answers explored here: success, not found, rate limited without a
\* Retry-After header
BackoffResponses ==
    {Response(st, <<>>, Obj1("id", JNum(1))) : st \in {200, 404, 429}}

\* the route the channel lookup requests
ChannelRoute == Route("GET", <<"/channels">>)

\* a caller outside the receive path awaits request(GET ...)
CallerRequest ==
    /\ Request
    /\ req'.route.method = "GET"
    /\ req'.kwargs = <<>>

\* ChatMessageCreated, run by received_event inside poll_event, awaits
\* getch_channel, which misses the cache and awaits request(...)
HandlerRequest ==
    /\ inbox # None
    /\ inbox.t = "TEXT"
    /\ inbox.data = NeedsChannel
    /\ ~fetching
    /\ hpc = "idle"
    /\ fetching' = TRUE
    /\ req' = [route |-> ChannelRoute, kwargs |-> <<>>]
    /\ submitted' = <<Submission(ChannelRoute, <<>>)>>
    /\ hpc' = "awaiting"
    /\ UNCHANGED <<responses, sleeps, frames, outcome, hb_sent, _close_code>>
    /\ UNCHANGED <<cacheVars, memberVars, hbVars, codecVars, wsVars>>

BackoffRespond ==
    /\ Respond
    /\ responses'[Len(responses')] \in BackoffResponses

\* the handler's request has returned or raised: the handler runs on to its
\* end with the channel it got, or with None
HandlerResume ==
    /\ fetching
    /\ hpc = "done"
    /\ Receive({env \in Envs : env.sendOk /\ (env.channel <=> ~IsRaise(outcome))})

\* a frame whose handler awaits no request is handled
ReceiveCached == ~fetching /\ Receive(Envs)

\* after the hello, poll_event receives the next frame
PollBackoffFrame == threads # <<>> /\ PollEvent(BackoffFrames)

\* the heartbeat send completes at once
BackoffBeat == HbSendDone /\ now' = now

BackoffNext ==
    \/ PollHello \/ PollBackoffFrame \/ ReceiveCached
    \/ HandlerRequest \/ HandlerResume
    \/ CallerRequest \/ BackoffRespond \/ Resubmit
    \/ HbStart \/ HbTick \/ BackoffBeat

SpecBackoff == InitGateway /\ [][BackoffNext]_vars

\* ------------------------------------------------------------------------
\* Properties of the receive path (SpecSession, SpecEvents)
\* ------------------------------------------------------------------------

\* received_event has just ended for the frame in entry
Handled == entry # None /\ entry.kind = "TEXT"

\* the decoded frame, its event type and its data
HandledFrame ==
    IF Len(calls) >= 2 /\ calls[2].name = "socket_response"
    THEN calls[2].args[1]
    ELSE _full_event_parse(entry.payload)

HandledType == Get(HandledFrame, "type")

HandledData == Get(HandledFrame, "data")

IsEvent(name) ==
    /\ Handled
    /\ ~IsRaise(HandledFrame)
    /\ HandledType = Str(name)

\* the message id the event names, and the cache entry it had on entry
HandledId == Get(Get(HandledData, "message"), "id")

HasId == HandledId # None

CachedOnEntry == DictGet(entry.messages, HandledId)

\* the calls the event handler made, after the two socket events that
\* received_event itself dispatches
HandlerCalls == SubSeq(calls, 3, Len(calls))

Dispatched(name, args) == [op |-> "dispatch", name |-> name, args |-> args]

CacheCall(name, message) == [op |-> "cache", name |-> name, args |-> <<message>>]

CountDispatches(names) ==
    Cardinality({i \in 1..Len(HandlerCalls) :
                    HandlerCalls[i].op = "dispatch" /\ HandlerCalls[i].name \in names})

Running == {i \in 1..Len(threads) : threads[i].started /\ ~threads[i].stop_ev}

\* C3 as stated: once a hello frame has set the session, no later frame
\* changes sid, upgrades or the heartbeat interval, or creates or starts a
\* second Heartbeater; at most one Heartbeater runs on a connection.
C3_SessionCreatedOnce ==
    [][sid # None =>
          /\ sid' = sid
          /\ upgrades' = upgrades
          /\ _heartbeater' = _heartbeater
          /\ threads' = threads
          /\ Cardinality(Running') <= 1]_vars

\* C7: a ChatMessageUpdated event for an id that is not cached dispatches
\* raw_message_edit once and nothing else, and leaves the cache as it was.
C7_UpdateUncached ==
    (IsEvent("ChatMessageUpdated") /\ HasId /\ CachedOnEntry = None) =>
        /\ HandlerCalls = <<Dispatched("raw_message_edit", <<HandledData>>)>>
        /\ CountDispatches({"message_edit"}) = 0
        /\ _messages = entry.messages
        /\ result = Returned(None)

\* an update for an uncached id was handled while another id was cached
C7_Witness ==
    /\ IsEvent("ChatMessageUpdated") /\ HasId /\ CachedOnEntry = None
    /\ entry.messages # <<>>
    /\ CountDispatches({"raw_message_edit"}) = 1

\* C8: a ChatMessageUpdated event for a cached id dispatches
\* raw_message_edit, then stores under that id a new message that carries
\* the prior entry's creation timestamp and webhook id, then dispatches
\* message_edit(before, after) with before the prior entry and after the
\* entry now cached.
C8_UpdateCached ==
    (IsEvent("ChatMessageUpdated") /\ HasId /\ CachedOnEntry # None) =>
        LET before == CachedOnEntry
            after == _get_message(_messages, HandledId)
        IN /\ HandlerCalls =
                <<Dispatched("raw_message_edit", <<HandledData>>),
                  CacheCall("add_to_message_cache", after),
                  Dispatched("message_edit", <<before, after>>)>>
           /\ after # None /\ after.id = HandledId
           /\ Get(after._raw, "createdAt") = Get(before._raw, "createdAt")
           /\ after.webhook_id = before.webhook_id
           /\ Get(after._raw, "webhookId") = before.webhook_id
           /\ DictKeys(_messages) = DictKeys(entry.messages)
           /\ \A k \in 1..Len(_messages) :
                _messages[k][1] # HandledId => _messages[k] = entry.messages[k]

\* an update that names its own createdAt and webhookId was handled for a
\* cached message that has a webhook id
C8_Witness ==
    /\ IsEvent("ChatMessageUpdated") /\ HasId /\ CachedOnEntry # None
    /\ CachedOnEntry.webhook_id = Str("wa")
    /\ Get(HandledData, "createdAt") = Str("tz")
    /\ _get_message(_messages, HandledId).webhook_id = Str("wa")

PinRawNames(kind) == {"raw_team_message_" \o kind, "raw_dm_message_" \o kind}

PinTypedNames(kind) == {"team_message_" \o kind, "dm_message_" \o kind}

PinClaim(kind) ==
    LET raw == Dispatched((IF Get(HandledData, "channelType") = Str("Team")
                           THEN "raw_team_message_" ELSE "raw_dm_message_") \o kind,
                          <<HandledData>>)
    IN /\ CountDispatches(PinRawNames(kind)) = 1
       /\ HandlerCalls[1] = raw
       /\ _messages = entry.messages
       /\ HasId =>
            IF CachedOnEntry = None
            THEN HandlerCalls = <<raw>>
            ELSE HandlerCalls =
                   <<raw,
                     Dispatched((IF CachedOnEntry.team # None
                                 THEN "team_message_" ELSE "dm_message_") \o kind,
                                <<CachedOnEntry>>)>>
       /\ ~HasId => CountDispatches(PinTypedNames(kind)) = 0

\* C10: a pin-created or pin-deleted event dispatches exactly one raw event,
\* the team variant iff channelType is "Team"; a typed event follows iff the
\* message is cached, the team variant iff the cached message has a team;
\* the message cache is not modified.
C10_Pins ==
    /\ IsEvent("ChatPinnedMessageCreated") => PinClaim("pinned")
    /\ IsEvent("ChatPinnedMessageDeleted") => PinClaim("unpinned")

\* a pin was created in a DM channel for a cached message that has a team
C10_Witness ==
    /\ IsEvent("ChatPinnedMessageCreated") /\ HasId /\ CachedOnEntry # None
    /\ CachedOnEntry.team # None
    /\ Get(HandledData, "channelType") = Str("DM")
    /\ CountDispatches({"team_message_pinned"}) = 1

\* ------------------------------------------------------------------------
\* Properties of the member events (SpecMembers)
\* ------------------------------------------------------------------------

HandledTeamId == Get(HandledData, "teamId")

\* the team the event names, as the team cache had it on entry
TeamOnEntry == _get_team(entry.teams, HandledTeamId)

\* data["userIds"][0] of a TeamXpSet event
XpUserId == Get(HandledData, "userIds").a[1]

NamesTeamAndUser ==
    /\ HandledTeamId # None
    /\ Get(HandledData, "userIds").t = "arr"
    /\ Get(HandledData, "userIds").a # <<>>

\* the member the event names, as the member cache had it on entry
XpMemberOnEntry == _get_team_member(entry.members, HandledTeamId, XpUserId)

CachesUnchanged ==
    /\ _messages = entry.messages
    /\ _teams = entry.teams
    /\ _team_members = entry.members

\* C11: a TeamXpSet event whose team is not cached, or whose member is not
\* cached in that team, makes the handler dispatch nothing and leaves every
\* cache mapping as it was.
C11_XpUncached ==
    (IsEvent("TeamXpSet") /\ NamesTeamAndUser
       /\ (TeamOnEntry = None \/ XpMemberOnEntry = None)) =>
        /\ HandlerCalls = <<>>
        /\ result = Returned(None)
        /\ CachesUnchanged

\* an amount arrived for an uncached member of a cached team that has
\* another member cached
C11_Witness ==
    /\ IsEvent("TeamXpSet") /\ NamesTeamAndUser
    /\ Truthy(Get(HandledData, "amount"))
    /\ TeamOnEntry # None /\ XpMemberOnEntry = None
    /\ entry.members # <<>>
    /\ HandlerCalls = <<>>

\* C12 as stated: a TeamXpSet event that carries an amount, 0 included, for
\* a cached member of a cached team leaves the cached member's xp equal to
\* the amount and dispatches exactly one member_update.
C12_XpSet ==
    (IsEvent("TeamXpSet") /\ NamesTeamAndUser
       /\ Get(HandledData, "amount") # None
       /\ TeamOnEntry # None /\ XpMemberOnEntry # None) =>
        /\ _get_team_member(_team_members, HandledTeamId, XpUserId).xp
             = Get(HandledData, "amount")
        /\ CountDispatches({"member_update"}) = 1

\* ------------------------------------------------------------------------
\* Properties of frame routing (SpecSession)
\* ------------------------------------------------------------------------

SessionUnchanged == <<sid, upgrades, _heartbeater, threads>> = entry.session

\* the frame decoded to an event {type, data} whose type names no handler
IsUnhandledEvent ==
    /\ Handled
    /\ ~IsRaise(HandledFrame)
    /\ ~Truthy(Get(HandledFrame, "sid"))
    /\ HandledType # None /\ HandledType.t = "str"
    /\ Get(HandledFrame, "data") # None
    /\ \A name \in HandlerNames : HandledType # Str(name)

\* C13 as stated: an event frame whose type is not a handled event type is
\* ignored: received_event returns normally, no handler runs, no error event
\* is dispatched, and no cache mapping or session field changes.
C13_UnknownIgnored ==
    IsUnhandledEvent =>
        /\ result = Returned(None)
        /\ HandlerCalls = <<>>
        /\ CachesUnchanged
        /\ SessionUnchanged

\* the frame decoded to an event whose type names a handler
IsHandlerEvent ==
    /\ Handled
    /\ ~IsRaise(HandledFrame)
    /\ HandledType # None
    /\ \E name \in HandlerNames : HandledType = Str(name)

\* the handler subscripts data["message"]["id"] and the payload has none
LacksMessageId ==
    /\ \E name \in {"ChatMessageUpdated", "ChatMessageDeleted",
                    "ChatPinnedMessageCreated", "ChatPinnedMessageDeleted"} :
         HandledType = Str(name)
    /\ ~HasId

\* C14: when an event handler raises, received_event dispatches the error
\* event exactly once, as its last call, with a library-kind exception (a
\* GuildedException wrapping the original when the original is not one), and
\* raises that same exception; without a failure no error event is
\* dispatched.
C14_HandlerFailureReported ==
    IsHandlerEvent =>
        /\ LacksMessageId => IsRaise(result)
        /\ IsRaise(result) =>
             /\ result.exc \in GuildedKinds
             /\ result.cause = "KeyError"
             /\ CountDispatches({"error"}) = 1
             /\ calls[Len(calls)] = Dispatched("error", <<result>>)
        /\ ~IsRaise(result) => CountDispatches({"error"}) = 0

\* an update frame without a message id failed after its raw event
C14_Witness ==
    /\ IsEvent("ChatMessageUpdated") /\ ~HasId
    /\ result = [Raise("GuildedException") EXCEPT !.cause = "KeyError"]
    /\ CountDispatches({"raw_message_edit"}) = 1
    /\ calls[Len(calls)] = Dispatched("error", <<result>>)

\* ------------------------------------------------------------------------
\* Properties of the Heartbeater (SpecHeartbeat)
\* ------------------------------------------------------------------------

\* C15 as stated: latency reads as the infinite sentinel until the first
\* heartbeat send has completed, and afterwards as the finite duration of
\* the send completed last.
C15_LatencyTracksRoundTrip ==
    /\ hb_last = None => latency = Inf
    /\ hb_last # None => latency = hb_last

\* C16 as stated: a wait for the heartbeat send that exceeds 10 seconds logs
\* a warning with the cumulative blocked time and goes on waiting for the
\* same send without stopping; the stop signal is set only when the send
\* itself fails.
C16_TimeoutKeepsWaiting ==
    [][(hb_pc = "sending" /\ hb_total' = hb_total + ResultTimeout) =>
          /\ hb_pc' = "sending"
          /\ hb_warnings' = Append(hb_warnings, hb_total')
          /\ threads' = threads]_vars

\* C17: poll_event on a socket whose next message is of kind CLOSE, CLOSING
\* or CLOSED raises WebSocketClosure to its caller, without decoding a
\* frame, running a handler or changing any state.
C17_ClosureRaised ==
    (entry # None /\ entry.kind \in ClosureKinds) =>
        /\ result = Raise("WebSocketClosure")
        /\ calls = <<>>
        /\ CachesUnchanged
        /\ SessionUnchanged

\* a closing socket was polled on a connection that has a session
C17_Witness ==
    /\ entry # None /\ entry.kind = "CLOSING"
    /\ sid # None
    /\ result = Raise("WebSocketClosure")

\* ------------------------------------------------------------------------
\* Properties of decoding (SpecPrefix)
\* ------------------------------------------------------------------------

\* how many digits a text starts with
LeadingDigits(text) ==
    CHOOSE n \in 0..Len(text) :
        /\ \A i \in 1..n : CharIsDigit(text[i])
        /\ n < Len(text) => ~CharIsDigit(text[n + 1])

\* the text without the digits it starts with
AfterDigits(text) == SubSeq(text, LeadingDigits(text) + 1, Len(text))

\* C18: for a received text of one or more digits followed by JSON, decoding
\* parses the text with exactly its leading digits removed, so no digit of
\* the JSON is lost; for a text of digits only received_event dispatches
\* nothing and changes no state.
C18_LeadingDigitsStripped ==
    Handled =>
        IF IsDigitText(entry.payload)
        THEN /\ calls = <<>>
             /\ result = Returned(None)
             /\ CachesUnchanged
             /\ SessionUnchanged
        ELSE /\ StripLoop(entry.payload, 1, entry.payload) = AfterDigits(entry.payload)
             /\ LET data == loads(AfterDigits(entry.payload)) IN
                ~IsRaise(data) /\ ~IsRaise(_pretty_event(data)) =>
                    /\ Len(calls) >= 2
                    /\ calls[2] = Dispatched("socket_response", <<_pretty_event(data)>>)

\* a frame with three leading digits was decoded to an event that keeps its
\* own digits, two of them the same as digits of the prefix
C18_Witness ==
    /\ Handled
    /\ LeadingDigits(entry.payload) = 3
    /\ Len(calls) >= 2
    /\ calls[2] = Dispatched("socket_response",
                             <<JObj(ValueField("type", Str("FutureEvent"))
                                    \o ValueField("data",
                                                  JObj(ValueField("n", JNum(420)))))>>)

\* ------------------------------------------------------------------------
\* Properties of the handshake (SpecSession)
\* ------------------------------------------------------------------------

\* the frame handled last is a complete hello frame
IsHello ==
    /\ Handled
    /\ ~IsRaise(HandledFrame)
    /\ Truthy(Get(HandledFrame, "sid"))
    /\ Get(HandledFrame, "upgrades") # None
    /\ Get(HandledFrame, "pingInterval") # None

\* C19: handling a hello frame sets sid and upgrades, then sends the
\* heartbeat payload "2", then starts a Heartbeater whose interval is
\* pingInterval / 1000, all within the one call of received_event; no event
\* handler is invoked, and the Heartbeater is not started when the send
\* fails.
C19_HandshakeOrder ==
    IsHello =>
        /\ sid = Get(HandledFrame, "sid")
        /\ upgrades = Get(HandledFrame, "upgrades")
        /\ Len(threads) = Len(entry.session[4]) + 1
        /\ _heartbeater = Len(threads)
        /\ threads[_heartbeater].interval
             = TrueDiv(Get(HandledFrame, "pingInterval").n, MsPerSecond)
        /\ \A i \in 1..Len(entry.session[4]) : threads[i] = entry.session[4][i]
        /\ IF IsRaise(result)
           THEN /\ HandlerCalls = <<>>
                /\ ~threads[_heartbeater].started
           ELSE /\ HandlerCalls =
                     <<[op |-> "send", name |-> "send",
                        args |-> <<JStr(HEARTBEAT_PAYLOAD)>>]>>
                /\ threads[_heartbeater].started
        /\ inbox = None

\* a hello frame with pingInterval 25000 was handled: the payload went out
\* and the Heartbeater runs with an interval of 25 seconds
C19_Witness ==
    /\ IsHello
    /\ result = Returned(None)
    /\ sid = Str("sa")
    /\ threads[_heartbeater].interval = TrueDiv(25000, MsPerSecond)
    /\ threads[_heartbeater].interval.int = 25
    /\ threads[_heartbeater].started

\* ------------------------------------------------------------------------
\* Properties of teamRolesUpdates (SpecMembers)
\* ------------------------------------------------------------------------

\* the batch of the event: data["memberRoleIds"]
RoleBatch == Get(HandledData, "memberRoleIds").a

\* the member an entry of the batch names, as cached on entry
EntryMember(e) == _get_team_member(entry.members, HandledTeamId, Get(e, "userId"))

\* the entries of the batch that are not skipped, in batch order
KeptEntries == SelectSeq(RoleBatch, LAMBDA e : EntryMember(e) # None)

\* the member object of an entry once its roles are replaced
UpdatedMember(e) == [EntryMember(e) EXCEPT !.roles = Get(e, "roleIds")]

\* the positions of the kept entries that name the user
KeptFor(uid) == {i \in 1..Len(KeptEntries) : Get(KeptEntries[i], "userId") = uid}

Max(S) == CHOOSE x \in S : \A y \in S : y <= x

\* C20: a teamRolesUpdates event on a cached team makes every cache
\* mutation of the batch before the first member_update dispatch; entries
\* whose member is not cached cause no mutation and no event; one
\* member_update is dispatched per remaining entry, in batch order; each
\* updated member's cached roles are the roleIds of its entry (of its last
\* entry, when the batch names it twice).
C20_RolesBatch ==
    (IsEvent("teamRolesUpdates") /\ TeamOnEntry # None) =>
        /\ HandlerCalls =
             [i \in 1..Len(KeptEntries) |->
                 CacheCall("add_to_member_cache", UpdatedMember(KeptEntries[i]))]
             \o
             [i \in 1..Len(KeptEntries) |->
                 Dispatched("member_update",
                            <<MemberRef(EntryMember(KeptEntries[i])),
                              MemberRef(EntryMember(KeptEntries[i]))>>)]
        /\ result = Returned(None)
        /\ \A uid \in UserIds \cup {Stranger} :
             LET was == _get_team_member(entry.members, HandledTeamId, uid)
                 is == _get_team_member(_team_members, HandledTeamId, uid)
             IN IF was = None THEN is = None
                ELSE IF KeptFor(uid) = {} THEN is = was
                ELSE is = [was EXCEPT
                             !.roles = Get(KeptEntries[Max(KeptFor(uid))], "roleIds")]
        /\ DictKeys(_team_members) = DictKeys(entry.members)
        /\ \A k \in 1..Len(_team_members) :
             DictKeys(_team_members[k][2]) = DictKeys(entry.members[k][2])
        /\ _teams = entry.teams
        /\ _messages = entry.messages

\* a batch of two entries for two different cached members was handled
C20_Witness ==
    /\ IsEvent("teamRolesUpdates") /\ TeamOnEntry # None
    /\ Len(RoleBatch) = 2 /\ Len(KeptEntries) = 2
    /\ Get(RoleBatch[1], "userId") # Get(RoleBatch[2], "userId")
    /\ Len(HandlerCalls) = 4
    /\ HandlerCalls[2].op = "cache" /\ HandlerCalls[3].op = "dispatch"

\* ------------------------------------------------------------------------
\* Properties of TeamMemberUpdated (SpecProfiles)
\* ------------------------------------------------------------------------

\* the member the profile update names, as cached on entry
ProfileMemberOnEntry ==
    _get_team_member(entry.members, HandledTeamId, Get(HandledData, "userId"))

\* C21 as stated: a TeamMemberUpdated event dispatches raw_member_update
\* once, first; when team and member are cached, every payload, one with an
\* empty userInfo included, dispatches member_update once, last, and raises
\* nothing; when either is uncached no typed event is dispatched and no
\* cache changes.
C21_ProfileUpdate ==
    IsEvent("TeamMemberUpdated") =>
        /\ CountDispatches({"raw_member_update"}) = 1
        /\ HandlerCalls[1] = Dispatched("raw_member_update", <<RawMember(HandledData)>>)
        /\ IF TeamOnEntry # None /\ ProfileMemberOnEntry # None
           THEN /\ ~IsRaise(result)
                /\ CountDispatches({"member_update"}) = 1
                /\ HandlerCalls[Len(HandlerCalls)].name = "member_update"
                /\ CountDispatches({"error"}) = 0
           ELSE /\ CountDispatches({"member_update"}) = 0
                /\ CachesUnchanged

\* the lookups the handler awaited, and the message field each one fills
IsFetch(x) == x.op = "fetch"

NotFetch(x) == x.op # "fetch"

FailedFetches ==
    {i \in 1..Len(HandlerCalls) :
        IsFetch(HandlerCalls[i]) /\ IsRaise(HandlerCalls[i].args[2])}

FieldFilledBy(m, name) ==
    CASE name = "getch_channel" -> m.channel
      [] name = "getch_team" -> m.team
      [] OTHER -> m.author

\* C22: a message-create event whose payload names a message id never
\* raises, whichever of the channel, author and team lookups fail; every
\* failed lookup leaves its field of the message null; the message is in the
\* bounded cache under its id; and the last two things the handler does are
\* the cache insertion and then the one "message" dispatch carrying it.
C22_CreateSurvivesLookups ==
    (IsEvent("ChatMessageCreated") /\ HasId) =>
        LET m == _get_message(_messages, HandledId) IN
        /\ ~IsRaise(result)
        /\ m # None
        /\ m.id = HandledId
        /\ Len(_messages) <= _max_messages
        /\ \A i \in FailedFetches : FieldFilledBy(m, HandlerCalls[i].name) = None
        /\ SelectSeq(HandlerCalls, NotFetch)
             = <<CacheCall("add_to_message_cache", m), Dispatched("message", <<m>>)>>
        /\ \A i \in 1..Len(HandlerCalls) :
             IsFetch(HandlerCalls[i]) => i < Len(HandlerCalls) - 1

\* C22 witness: a message-create event whose channel, author and team
\* lookups all failed, with the message cached and dispatched all the same.
C22_Witness ==
    /\ IsEvent("ChatMessageCreated")
    /\ HasId
    /\ Cardinality(FailedFetches) = 3
    /\ _get_message(_messages, HandledId) # None
    /\ CountDispatches({"message"}) = 1

\* the message the last add_to_message_cache call was given
LastInserted == inserted'[Len(inserted')]

OtherKeys(d, k) == {i \in 1..Len(d) : d[i][1] # k}

\* C23: a call of add_to_message_cache with an id that is already cached
\* replaces the entry in place (same number of entries, same keys in the
\* same eviction order, every other entry untouched, the new message under
\* the id); a call with a new id at capacity evicts the first key of that
\* order, so a re-inserted id is evicted by its first insertion, not by its
\* last update.
C23_ReplaceInPlace ==
    [][Len(inserted') = Len(inserted) + 1 =>
         IF DictHas(_messages, LastInserted.id)
         THEN /\ Len(_messages') = Len(_messages)
              /\ DictKeys(_messages') = DictKeys(_messages)
              /\ _get_message(_messages', LastInserted.id) = LastInserted
              /\ \A i \in OtherKeys(_messages, LastInserted.id) :
                   _messages'[i] = _messages[i]
         ELSE Len(_messages) = _max_messages =>
                DictKeys(_messages') =
                    Append(Tail(DictKeys(_messages)), LastInserted.id)]_vars

\* C23 witness: with capacity 2, a and b are inserted, a is re-inserted with
\* another content, then c is inserted: a is the one evicted, b stays.
C23_Witness ==
    /\ _max_messages = 2
    /\ Len(inserted) = 4
    /\ inserted[1].id = inserted[3].id
    /\ inserted[1] # inserted[3]
    /\ inserted[2].id # inserted[1].id
    /\ inserted[4].id \notin {inserted[1].id, inserted[2].id}
    /\ DictKeys(_messages) = <<inserted[2].id, inserted[4].id>>

\* ------------------------------------------------------------------------
\* Properties of the Heartbeater beside the receive path (SpecKeepAlive)
\* ------------------------------------------------------------------------

\* the started Heartbeater is about to wait, or waiting, with its stop
\* signal clear and a whole interval left on the clock
DueToBeat ==
    /\ Started
    /\ hb_pc \in {"unstarted", "waiting"}
    /\ ~threads[_heartbeater].stop_ev
    /\ now + threads[_heartbeater].interval.int <= MaxTime

\* C24: whenever the started Heartbeater is at its interval wait with the
\* stop signal clear, it goes on to issue a heartbeat send, in every
\* execution: whether frames keep arriving or the receive path stays
\* suspended in poll_event with no message at all.
C24_BeatsWithoutFrames == DueToBeat ~> (hb_pc = "sending")

\* C24 witness: two heartbeat sends have been issued on the open socket and
\* the last frame received is still the hello that started the Heartbeater.
C24_Witness ==
    /\ Len(hb_sent) >= 2
    /\ _close_code = None
    /\ inbox = None
    /\ IsHello

\* the heartbeat sends issued after close() completed
LateSends == {i \in 1..Len(hb_sent) : ~hb_sent[i]}

StopSet == _heartbeater # 0 /\ threads[_heartbeater].stop_ev

\* the socket is closed while the started Heartbeater has time left for the
\* send in flight and one more interval
ClosedWhileRunning ==
    /\ _close_code # None
    /\ Started
    /\ \A d \in SendDurations :
         now + d + threads[_heartbeater].interval.int <= MaxTime

\* C26: once close() has completed, the started Heartbeater's stop signal
\* eventually becomes set; at most one heartbeat send is issued after the
\* close, and once that one has been waited for the stop signal is set; and
\* no step taken with the stop signal set issues a heartbeat send.
C26_StopsAfterClose ==
    /\ ClosedWhileRunning ~> StopSet
    /\ [](Cardinality(LateSends) <= 1)
    /\ []((LateSends # {} /\ hb_pc # "sending") => StopSet)
    /\ [][StopSet => hb_sent' = hb_sent]_vars

\* C26 witness: one heartbeat send was issued after the close, the stop
\* signal is set and run has returned.
C26_Witness ==
    /\ _close_code # None
    /\ Cardinality(LateSends) = 1
    /\ StopSet
    /\ hb_pc = "exited"

\* ------------------------------------------------------------------------
\* Properties of a rate-limited request (SpecBackoff)
\* ------------------------------------------------------------------------

\* the request is suspended in asyncio.sleep before its retry
InRetryWait == hpc = "sleeping"

\* poll_event can go on: socket.receive() is awaited and may return the
\* next frame, or the frame received is handled to its end (the guards of
\* PollEvent and of ReceiveCached)
ReceivePathFree == inbox = None \/ ~fetching

\* the Heartbeater can take its next step (the guards of HbStart and HbTick)
HeartbeaterFree ==
    \/ hb_pc = "unstarted" /\ Started
    \/ /\ hb_pc = "waiting"
       /\ ~threads[_heartbeater].stop_ev
       /\ now + threads[_heartbeater].interval.int <= MaxTime

\* C25 as stated: while a request is suspended in its rate-limit wait, the
\* receive path can receive or dispatch the next frame and a Heartbeater
\* that is due can tick, whoever issued the request.
C25_RetryWaitBlocksNothing ==
    InRetryWait =>
        /\ ReceivePathFree
        /\ DueToBeat => HeartbeaterFree

\* the part of C25 that holds: a request awaited outside the receive path
\* blocks neither, and a request awaited by a handler leaves the Heartbeater
\* free
CallerWaitBlocksNothing ==
    InRetryWait =>
        /\ ~fetching => ReceivePathFree
        /\ DueToBeat => HeartbeaterFree

\* a Heartbeater due to beat while the handler's request is in its wait
HandlerWaitBeatDue == InRetryWait /\ fetching /\ DueToBeat /\ hb_sent # <<>>

====
